---- MODULE Spec2Model ----
(***************************************************************************)
(* A model of the NL-to-SQL agent: the query validator and executor, the   *)
(* workflow nodes, the routing functions, and the graph orchestrator.      *)
(*                                                                         *)
(* Text is a sequence of one-character strings, so that case folding,      *)
(* word boundaries and substring search are computed, not assumed.         *)
(* Messages are sequences of pieces (strings) with the same operators.     *)
(***************************************************************************)
EXTENDS Integers, Sequences, FiniteSets, TLC

(***************************************************************************)
(* Python's None for a text-valued field: a one-element sequence whose     *)
(* element is no character, hence different from every text, '' included.  *)
(***************************************************************************)
None == <<"<None>">>

\* F(v), with v evaluated once, before F uses it
Bind(v, F(_)) == CHOOSE r \in {F(x) : x \in {v}} : TRUE

\* Python truthiness of an Optional[str] / Optional[list]: None and '' / [] are falsy.
Truthy(x) == x # None /\ x # <<>>

(***************************************************************************)
(* Characters                                                              *)
(***************************************************************************)
LowerCase == <<"a","b","c","d","e","f","g","h","i","j","k","l","m",
               "n","o","p","q","r","s","t","u","v","w","x","y","z">>
UpperCase == <<"A","B","C","D","E","F","G","H","I","J","K","L","M",
               "N","O","P","Q","R","S","T","U","V","W","X","Y","Z">>
Digits == <<"0","1","2","3","4","5","6","7","8","9">>

InSeq(c, s) == \E i \in 1..Len(s) : s[i] = c
Range(s) == {s[i] : i \in 1..Len(s)}

\* str.upper() / str.lower() on one character
UpperOf == [c \in Range(LowerCase) |-> UpperCase[CHOOSE i \in 1..26 : LowerCase[i] = c]]
LowerOf == [c \in Range(UpperCase) |-> LowerCase[CHOOSE i \in 1..26 : UpperCase[i] = c]]
UpperChar(c) == IF c \in DOMAIN UpperOf THEN UpperOf[c] ELSE c
LowerChar(c) == IF c \in DOMAIN LowerOf THEN LowerOf[c] ELSE c
upper(s) == [i \in 1..Len(s) |-> UpperChar(s[i])]
lower(s) == [i \in 1..Len(s) |-> LowerChar(s[i])]

\* regex classes \w and \s, and '.' (anything but a newline)
WordChars == Range(LowerCase) \cup Range(UpperCase) \cup Range(Digits) \cup {"_"}
IsWord(c) == c \in WordChars
IsSpace(c) == c \in {" ", "\t", "\n", "\r", "\f"}
InClass(c, cls) ==
    CASE cls = "s" -> IsSpace(c)
      [] cls = "w" -> IsWord(c)
      [] cls = "d" -> c \in Range(Digits)
      [] cls = "." -> c # "\n"
      [] cls = "notquote" -> c # "'"
      [] OTHER -> FALSE

\* s[a..b] (1-based, inclusive), empty when a > b
Slice(s, a, b) == IF a > b THEN <<>> ELSE SubSeq(s, a, b)

\* str.strip()
RECURSIVE lstrip(_)
lstrip(s) == IF s # <<>> /\ IsSpace(Head(s)) THEN lstrip(Tail(s)) ELSE s
RECURSIVE rstrip(_)
rstrip(s) == IF s # <<>> /\ IsSpace(s[Len(s)]) THEN rstrip(Slice(s, 1, Len(s) - 1)) ELSE s
strip(s) == rstrip(lstrip(s))

\* str.startswith / str.endswith / the `in` operator / str.count
StartsAt(s, pat, i) == i + Len(pat) - 1 <= Len(s) /\ \A k \in 1..Len(pat) : s[i + k - 1] = pat[k]
startswith(s, pat) == StartsAt(s, pat, 1)
endswith(s, pat) == Len(pat) <= Len(s) /\ StartsAt(s, pat, Len(s) - Len(pat) + 1)
Contains(s, pat) == \E i \in 1..(Len(s) + 1) : StartsAt(s, pat, i)
RECURSIVE CountFrom(_, _, _)
CountFrom(s, pat, i) ==
    IF i + Len(pat) - 1 > Len(s) THEN 0
    ELSE IF StartsAt(s, pat, i) THEN 1 + CountFrom(s, pat, i + Len(pat))
    ELSE CountFrom(s, pat, i + 1)
count(s, pat) == CountFrom(s, pat, 1)

(***************************************************************************)
(* Regular expressions, as far as the program uses them.  A pattern is a   *)
(* sequence of elements: a literal character, a starred class, or the end  *)
(* anchor $.  re.search is a match at some start.                          *)
(***************************************************************************)
Lit(c) == [k |-> "lit", c |-> c]
Star(cls) == [k |-> "star", c |-> cls]
EndAnchor == [k |-> "end", c |-> ""]
Lits(s) == [i \in 1..Len(s) |-> Lit(s[i])]

CharEq(a, c, ignorecase) == IF ignorecase THEN LowerChar(a) = LowerChar(c) ELSE a = c
IsWordAt(s, j) == j >= 1 /\ j <= Len(s) /\ IsWord(s[j])

RECURSIVE MatchHere(_, _, _, _, _)
MatchHere(pat, p, s, i, ignorecase) ==
    IF p > Len(pat) THEN TRUE
    ELSE LET e == pat[p] IN
      CASE e.k = "lit" ->
             /\ i <= Len(s)
             /\ CharEq(s[i], e.c, ignorecase)
             /\ MatchHere(pat, p + 1, s, i + 1, ignorecase)
        [] e.k = "star" ->
             \/ MatchHere(pat, p + 1, s, i, ignorecase)
             \/ /\ i <= Len(s)
                /\ InClass(s[i], e.c)
                /\ MatchHere(pat, p, s, i + 1, ignorecase)
        [] e.k = "end" ->
             /\ i = Len(s) + 1 \/ (i = Len(s) /\ s[i] = "\n")
             /\ MatchHere(pat, p + 1, s, i, ignorecase)
        [] OTHER -> FALSE

re_search(pat, s, ignorecase) == \E i \in 1..(Len(s) + 1) : MatchHere(pat, 1, s, i, ignorecase)

(***************************************************************************)
(* QueryValidator (agent/validator.py).  validate returns True or raises;  *)
(* a call's outcome is a record: raised, the exception text, the value.    *)
(***************************************************************************)
Returned(v) == [raised |-> FALSE, msg |-> <<>>, value |-> v]
Raised(m) == [raised |-> TRUE, msg |-> m, value |-> FALSE]

DANGEROUS_KEYWORDS == <<
    <<"D","R","O","P">>, <<"D","E","L","E","T","E">>, <<"T","R","U","N","C","A","T","E">>,
    <<"I","N","S","E","R","T">>, <<"U","P","D","A","T","E">>,
    <<"A","L","T","E","R">>, <<"C","R","E","A","T","E">>, <<"R","E","P","L","A","C","E">>,
    <<"G","R","A","N","T">>, <<"R","E","V","O","K","E">>,
    <<"E","X","E","C">>, <<"E","X","E","C","U","T","E">>, <<"D","E","C","L","A","R","E">>,
    <<"S","H","U","T","D","O","W","N">>,
    <<"x","p","_","c","m","d","s","h","e","l","l">>,
    <<"s","p","_","e","x","e","c","u","t","e","s","q","l">> >>

\* re.search(r'\b' + keyword + r'\b', s): the keyword's characters at some place,
\* with a word boundary (\w on exactly one side) before its first and after its last
WordBoundaryAt(s, i) == IsWordAt(s, i - 1) # IsWordAt(s, i)
KeywordSearch(keyword, s) ==
    \E i \in 1..(Len(s) - Len(keyword) + 1) :
        /\ SubSeq(s, i, i + Len(keyword) - 1) = keyword
        /\ WordBoundaryAt(s, i)
        /\ WordBoundaryAt(s, i + Len(keyword))
\* the same search without the word boundaries
SubstringSearch(keyword, s) ==
    \E i \in 1..(Len(s) - Len(keyword) + 1) : SubSeq(s, i, i + Len(keyword) - 1) = keyword

\* for keyword in DANGEROUS_KEYWORDS: the index of the first keyword found in
\* query.upper(), where the loop raises; 0 when the loop ends without raising
RECURSIVE FirstSubstringFrom(_, _)
FirstSubstringFrom(query_upper, k) ==
    IF k > Len(DANGEROUS_KEYWORDS) THEN 0
    ELSE IF SubstringSearch(DANGEROUS_KEYWORDS[k], query_upper) THEN k
    ELSE FirstSubstringFrom(query_upper, k + 1)
RECURSIVE FirstKeywordFrom(_, _)
FirstKeywordFrom(query_upper, k) ==
    IF k > Len(DANGEROUS_KEYWORDS) THEN 0
    ELSE IF KeywordSearch(DANGEROUS_KEYWORDS[k], query_upper) THEN k
    ELSE FirstKeywordFrom(query_upper, k + 1)

check_dangerous_keywords_substring(query) ==
    Bind(upper(query), LAMBDA query_upper : FirstSubstringFrom(query_upper, 1))
check_dangerous_keywords(query) ==
    Bind(upper(query), LAMBDA query_upper : FirstKeywordFrom(query_upper, 1))

kwSELECT == <<"S","E","L","E","C","T">>
kwWITH == <<"W","I","T","H">>

is_select_query_any_with(query) ==
    LET query_upper == upper(strip(query))
    IN IF startswith(query_upper, kwWITH) THEN TRUE
       ELSE startswith(query_upper, kwSELECT)
is_select_query(query) ==
    LET query_upper == upper(strip(query))
    IN IF startswith(query_upper, kwWITH) THEN Contains(query_upper, kwSELECT)
       ELSE startswith(query_upper, kwSELECT)

injection_patterns == <<
    \* '\s*OR\s*'1'\s*=\s*'1
    <<Lit("'"), Star("s"), Lit("O"), Lit("R"), Star("s"), Lit("'"), Lit("1"), Lit("'"),
      Star("s"), Lit("="), Star("s"), Lit("'"), Lit("1")>>,
    \* '\s*OR\s*1\s*=\s*1
    <<Lit("'"), Star("s"), Lit("O"), Lit("R"), Star("s"), Lit("1"),
      Star("s"), Lit("="), Star("s"), Lit("1")>>,
    \* --\s*$
    <<Lit("-"), Lit("-"), Star("s"), EndAnchor>>,
    \* /\*.*\*/
    <<Lit("/"), Lit("*"), Star("."), Lit("*"), Lit("/")>>,
    \* ;\s*DROP   and   ;\s*DELETE
    <<Lit(";"), Star("s")>> \o Lits(<<"D","R","O","P">>),
    <<Lit(";"), Star("s")>> \o Lits(<<"D","E","L","E","T","E">>),
    Lits(<<"x","p","_","c","m","d","s","h","e","l","l">>),
    Lits(<<"s","p","_","e","x","e","c","u","t","e","s","q","l">>) >>

\* TRUE when some pattern matches (re.IGNORECASE); the code raises then.
check_sql_injection(query) ==
    \E n \in 1..Len(injection_patterns) : re_search(injection_patterns[n], query, TRUE)

RemoveLiterals_kept(s) == s

\* re.sub(r"'[^']*'", "", query): leftmost, non-overlapping quoted literals removed
RECURSIVE RemoveLiterals(_)
RemoveLiterals(s) ==
    IF ~InSeq("'", s) THEN s
    ELSE LET i == CHOOSE i \in 1..Len(s) : s[i] = "'" /\ \A j \in 1..(i - 1) : s[j] # "'"
             rest == Slice(s, i + 1, Len(s))
         IN IF ~InSeq("'", rest) THEN s
            ELSE LET j == CHOOSE j \in 1..Len(rest) :
                              rest[j] = "'" /\ \A m \in 1..(j - 1) : rest[m] # "'"
                 IN Slice(s, 1, i - 1) \o RemoveLiterals(Slice(rest, j + 1, Len(rest)))

has_multiple_statements(query) ==
    LET cleaned_query == RemoveLiterals(query)
        semicolons == count(cleaned_query, <<";">>)
    IN IF semicolons > 1 THEN TRUE
       ELSE IF semicolons = 1 /\ ~endswith(strip(cleaned_query), <<";">>) THEN TRUE
       ELSE FALSE

MsgEmpty == <<"Query is empty">>
MsgDangerous(k) ==
    <<"Dangerous keyword '">> \o DANGEROUS_KEYWORDS[k]
        \o <<"' is not allowed. Only SELECT queries are permitted.">>
MsgOnlySelect == <<"Only SELECT queries are allowed">>
MsgInjection == <<"Query contains potentially malicious patterns. Please rephrase your query.">>
MsgMultiple == <<"Multiple SQL statements are not allowed">>

validate(query) ==
    IF query = <<>> \/ strip(query) = <<>> THEN Raised(MsgEmpty)
    ELSE Bind(strip(query), LAMBDA q :
            Bind(check_dangerous_keywords(q), LAMBDA k :
               IF k # 0 THEN Raised(MsgDangerous(k))
               ELSE IF ~is_select_query(q) THEN Raised(MsgOnlySelect)
               ELSE IF check_sql_injection(q) THEN Raised(MsgInjection)
               ELSE IF has_multiple_statements(q) THEN Raised(MsgMultiple)
               ELSE Returned(TRUE)))

(***************************************************************************)
(* QueryExecutor.execute (agent/query_executor.py).  `kwargs` are the      *)
(* keyword arguments of the call, `db` what the database would answer.     *)
(* An outcome is either an exception leaving execute or a returned         *)
(* payload (a dict: `keys` are the keys it holds).                         *)
(***************************************************************************)
NoRows == <<>>
XRaised(m) ==
    [raised |-> TRUE, msg |-> m, success |-> FALSE, error |-> None, rows |-> NoRows,
     keys |-> {}, dbCalled |-> FALSE]
XFailure(m, called) ==
    [raised |-> FALSE, msg |-> <<>>, success |-> FALSE, error |-> m, rows |-> NoRows,
     keys |-> {"success", "error", "query"}, dbCalled |-> called]
XSuccess(rows) ==
    [raised |-> FALSE, msg |-> <<>>, success |-> TRUE, error |-> None, rows |-> rows,
     keys |-> {"success", "results", "metadata"}, dbCalled |-> TRUE]

\* def execute(self, sql_query): the only parameter a call may name
ExecuteParams == {"sql_query"}
MsgUnexpectedKeyword == <<"execute() got an unexpected keyword argument">>
\* `is_valid, error_message = self.validator.validate(sql_query)` unpacks the value
\* validate returns; validate returns the bool True (validator.py:67), not a pair
ValidateReturnsPair == FALSE
MsgUnpack == <<"cannot unpack non-iterable bool object">>

Row1 == <<"r1">>
Row2 == <<"r2">>
\* What db.execute_query may answer: rows, or an exception with its text.
DbOutcomes ==
    {[ok |-> TRUE, rows |-> <<>>, err |-> None],
     [ok |-> TRUE, rows |-> <<Row1, Row2>>, err |-> None],
     [ok |-> FALSE, rows |-> <<>>, err |-> <<"Query execution error: ", "syntax error">>]}

\* lines 42-67: the guarded database call; one outcome per answer of the database
ExecuteBody ==
    {IF db.ok THEN XSuccess(db.rows) ELSE XFailure(db.err, TRUE) : db \in DbOutcomes}

\* The set of outcomes of execute(sql_query, **kwargs).
QueryExecutor_execute(sql_query, kwargs) ==
    IF ~(kwargs \subseteq ExecuteParams) THEN {XRaised(MsgUnexpectedKeyword)}
    ELSE LET v == validate(sql_query)
         IN IF v.raised THEN {XRaised(v.msg)}
            ELSE IF ~ValidateReturnsPair THEN {XRaised(MsgUnpack)}
            ELSE IF ~v.value THEN {XFailure(v.msg, FALSE)}
            ELSE ExecuteBody

\* get_query_complexity: the score and its label (validator.py:164-210)
JoinCount(query_upper) ==
    Cardinality({i \in 1..Len(query_upper) :
                    /\ StartsAt(query_upper, <<"J","O","I","N">>, i)
                    /\ WordBoundaryAt(query_upper, i)
                    /\ WordBoundaryAt(query_upper, i + 4)})
AGGREGATES == <<<<"C","O","U","N","T">>, <<"S","U","M">>, <<"A","V","G">>, <<"M","I","N">>, <<"M","A","X">>>>
RECURSIVE SumCounts(_, _)
SumCounts(query_upper, n) ==
    IF n = 0 THEN 0 ELSE count(query_upper, AGGREGATES[n]) + SumCounts(query_upper, n - 1)
complexity_score(query) ==
    Bind(upper(query), LAMBDA query_upper :
       JoinCount(query_upper) * 2
       + (count(query_upper, kwSELECT) - 1) * 3
       + SumCounts(query_upper, Len(AGGREGATES))
       + (IF Contains(query_upper, <<"G","R","O","U","P"," ","B","Y">>) THEN 2 ELSE 0)
       + (IF Contains(query_upper, <<"H","A","V","I","N","G">>) THEN 2 ELSE 0)
       + (IF startswith(query_upper, kwWITH) THEN 3 ELSE 0))
get_query_complexity(query) ==
    Bind(complexity_score(query), LAMBDA score :
       IF score = 0 THEN "simple"
       ELSE IF score <= 5 THEN "moderate"
       ELSE "complex")

(***************************************************************************)
(* The workflow state (agent/state.py).  A node returns a partial update,  *)
(* merged into the record field by field (EXCEPT).                         *)
(***************************************************************************)
\* AgentStatus values
INITIALIZED == "initialized"
UNDERSTANDING == "understanding"
GENERATING == "generating"
VALIDATING == "validating"
REFINING == "refining"
EXECUTING == "executing"
FORMATTING == "formatting"
SUCCESS == "success"
FAILED == "failed"

\* query_intent: {} until Understand runs; limit -1 and function "" stand for a
\* missing key
EmptyIntent ==
    [action |-> "", limit |-> -1, function |-> "",
     needs_aggregation |-> FALSE, needs_grouping |-> FALSE, needs_ordering |-> FALSE]

create_initial_state(user_query, available_tables, available_columns, session_id) ==
    [user_query |-> user_query,
     available_tables |-> available_tables,
     available_columns |-> available_columns,
     query_intent |-> EmptyIntent,
     detected_entities |-> [tables |-> <<>>, columns |-> <<>>],
     expected_output_type |-> "list",
     generated_sql |-> None,
     sql_explanation |-> None,
     generation_attempt |-> 0,
     max_attempts |-> 3,
     is_valid |-> FALSE,
     validation_errors |-> <<>>,
     validation_warnings |-> <<>>,
     complexity |-> "simple",
     refinement_feedback |-> None,
     needs_refinement |-> FALSE,
     query_results |-> None,
     execution_time |-> None,
     row_count |-> -1,
     execution_error |-> None,
     formatted_response |-> None,
     result_summary |-> None,
     status |-> INITIALIZED,
     error_message |-> None,
     retry_count |-> 0,
     session_id |-> session_id]

(***************************************************************************)
(* UnderstandQueryNode (agent/nodes.py:17-110)                             *)
(***************************************************************************)
AnyIn(words, query) == \E w \in words : Contains(query, w)

RetrieveWords == {<<"s","h","o","w">>, <<"l","i","s","t">>, <<"d","i","s","p","l","a","y">>, <<"g","e","t">>, <<"g","i","v","e"," ","m","e">>}
CountWords == {<<"c","o","u","n","t">>, <<"h","o","w"," ","m","a","n","y">>, <<"t","o","t","a","l"," ","n","u","m","b","e","r">>}
TopWords == {<<"t","o","p">>, <<"b","e","s","t">>, <<"h","i","g","h","e","s","t">>, <<"m","o","s","t">>}
CompareWords == {<<"c","o","m","p","a","r","e">>, <<"d","i","f","f","e","r","e","n","c","e">>, <<"v","s">>, <<"v","e","r","s","u","s">>}
AvgWords == {<<"a","v","e","r","a","g","e">>, <<"a","v","g">>, <<"m","e","a","n">>}
SumWords == {<<"s","u","m">>, <<"t","o","t","a","l">>}
AggregationWords == {<<"c","o","u","n","t">>, <<"s","u","m">>, <<"a","v","e","r","a","g","e">>, <<"a","v","g">>, <<"t","o","t","a","l">>, <<"m","i","n">>, <<"m","a","x">>}
GroupingWords == {<<"b","y">>, <<"p","e","r">>, <<"e","a","c","h">>, <<"e","v","e","r","y">>, <<"c","a","t","e","g","o","r","y">>}
OrderingWords == {<<"t","o","p">>, <<"b","o","t","t","o","m">>, <<"b","e","s","t">>, <<"w","o","r","s","t">>, <<"h","i","g","h","e","s","t">>, <<"l","o","w","e","s","t">>, <<"l","a","t","e","s","t">>}

DigitValue(c) == (CHOOSE i \in 1..10 : Digits[i] = c) - 1
\* the maximal run of characters of class cls starting at s[i]
RECURSIVE RunEnd(_, _, _)
RunEnd(s, i, cls) ==
    IF i <= Len(s) /\ InClass(s[i], cls) THEN RunEnd(s, i + 1, cls) ELSE i - 1
RECURSIVE int(_)
int(ds) == IF ds = <<>> THEN 0 ELSE 10 * int(Slice(ds, 1, Len(ds) - 1)) + DigitValue(ds[Len(ds)])

\* `word\s+(cls+)` matches at place i: `word` stands there, followed by at least
\* one whitespace and then at least one character of cls
WordThenRunAt(s, word, cls, i) ==
    /\ StartsAt(s, word, i)
    /\ RunEnd(s, i + Len(word), "s") >= i + Len(word)
    /\ RunEnd(s, RunEnd(s, i + Len(word), "s") + 1, cls) > RunEnd(s, i + Len(word), "s")
WordThenRun(s, word, cls) == {i \in 1..Len(s) : WordThenRunAt(s, word, cls, i)}
\* the group (cls+) of the match at place i
GroupAt(s, word, cls, i) ==
    LET a == RunEnd(s, i + Len(word), "s") + 1
    IN Slice(s, a, RunEnd(s, a, cls))
Least(S) == CHOOSE x \in S : \A y \in S : x <= y

TopLimit_default(query) == 10

\* match = re.search(r'top\s+(\d+)', query); int(match.group(1)) if match else 10
TopLimit(query) ==
    LET ms == WordThenRun(query, <<"t","o","p">>, "d")
    IN IF ms = {} THEN 10 ELSE int(GroupAt(query, <<"t","o","p">>, "d", Least(ms)))

DetectIntent(query) ==
    LET flags == [EmptyIntent EXCEPT
                    !.needs_aggregation = AnyIn(AggregationWords, query),
                    !.needs_grouping = AnyIn(GroupingWords, query),
                    !.needs_ordering = AnyIn(OrderingWords, query)]
    IN IF AnyIn(RetrieveWords, query) THEN [flags EXCEPT !.action = "retrieve"]
       ELSE IF AnyIn(CountWords, query) THEN [flags EXCEPT !.action = "count"]
       ELSE IF AnyIn(TopWords, query)
            THEN [flags EXCEPT !.action = "top_n", !.limit = TopLimit(query)]
       ELSE IF AnyIn(CompareWords, query) THEN [flags EXCEPT !.action = "compare"]
       ELSE IF AnyIn(AvgWords, query)
            THEN [flags EXCEPT !.action = "aggregate", !.function = "avg"]
       ELSE IF AnyIn(SumWords, query)
            THEN [flags EXCEPT !.action = "aggregate", !.function = "sum"]
       ELSE [flags EXCEPT !.action = "retrieve"]

\* str.rstrip('s')
RECURSIVE rstrip_s(_)
rstrip_s(w) == IF w # <<>> /\ w[Len(w)] = "s" THEN rstrip_s(Slice(w, 1, Len(w) - 1)) ELSE w
TableMentioned(table, query) ==
    \/ Contains(query, lower(table))
    \/ Contains(query, rstrip_s(lower(table)))
    \/ Contains(query, lower(table) \o <<"s">>)
\* available_columns: a sequence of <<table, columns>>; every mentioned column, per table
RECURSIVE MentionedColumns(_, _)
MentionedColumns(available_columns, query) ==
    IF available_columns = <<>> THEN <<>>
    ELSE LET Mentioned(column) == Contains(query, lower(column))
         IN SelectSeq(Head(available_columns)[2], Mentioned)
                \o MentionedColumns(Tail(available_columns), query)

ExpectedOutput(intent) ==
    IF intent.action = "count" THEN "count"
    ELSE IF intent.action = "aggregate" THEN "aggregate"
    ELSE IF intent.action = "compare" THEN "comparison"
    ELSE IF intent.needs_grouping THEN "grouped_list"
    ELSE "list"

UnderstandQueryNode(state) ==
    Bind(lower(state.user_query), LAMBDA query :
       Bind(DetectIntent(query), LAMBDA intent :
          LET Mentioned(table) == TableMentioned(table, query)
          IN [state EXCEPT
                !.query_intent = intent,
                !.detected_entities =
                    [tables |-> SelectSeq(state.available_tables, Mentioned),
                     columns |-> MentionedColumns(state.available_columns, query)],
                !.expected_output_type = ExpectedOutput(intent),
                !.status = UNDERSTANDING]))

(***************************************************************************)
(* SQLGenerator (agent/sql_generator.py).  The model's answer is an input: *)
(* the call raised, the answer was empty, or it was a text from which      *)
(* _extract_sql took `sql` (None when it found nothing) and                *)
(* _extract_explanation took `explanation`.                                *)
(***************************************************************************)
Explanation == <<"explanation">>
ApiError(m) ==
    [raised |-> TRUE, msg |-> m, empty |-> FALSE, sql |-> None, explanation |-> None]
EmptyResponse ==
    [raised |-> FALSE, msg |-> <<>>, empty |-> TRUE, sql |-> None, explanation |-> None]
\* _extract_explanation gives the stripped text after "Explanation:", which is empty
\* when the answer ends there (sql_generator.py:258-262)
ExplainedResponse(sql, explanation) ==
    [raised |-> FALSE, msg |-> <<>>, empty |-> FALSE, sql |-> sql,
     explanation |-> explanation]
TextResponse(sql) == ExplainedResponse(sql, Explanation)

generate_sql(response) ==
    IF response.raised THEN Raised(<<"Failed to generate SQL: ">> \o response.msg)
    ELSE IF response.empty
         THEN Raised(<<"Failed to generate SQL: ", "Empty response from Gemini API">>)
    ELSE IF ~Truthy(response.sql)
         THEN Raised(<<"Failed to generate SQL: ", "Could not extract SQL from response">>)
    ELSE Returned(<<response.sql, response.explanation>>)

refine_query(response) ==
    IF response.raised THEN Raised(<<"Failed to refine SQL: ">> \o response.msg)
    ELSE IF response.empty
         THEN Raised(<<"Failed to refine SQL: ",
                       "Empty response from Gemini API during refinement">>)
    ELSE IF ~Truthy(response.sql)
         THEN Raised(<<"Failed to refine SQL: ",
                       "Could not extract refined SQL from response">>)
    ELSE Returned(response.sql)

(***************************************************************************)
(* GenerateSQLNode (agent/nodes.py:113-153)                                *)
(***************************************************************************)
GenerateSQLNode(state, response) ==
    LET r == generate_sql(response)
    IN IF r.raised
       THEN [state EXCEPT
               !.generated_sql = None,
               !.error_message = <<"Failed to generate SQL: ">> \o r.msg,
               !.status = FAILED]
       ELSE [state EXCEPT
               !.generated_sql = r.value[1],
               !.sql_explanation = r.value[2],
               !.generation_attempt = state.generation_attempt + 1,
               !.status = GENERATING,
               !.error_message = None]

(***************************************************************************)
(* ValidateSQLNode (agent/nodes.py:190-293)                                *)
(***************************************************************************)
\* re.findall(r'join\s+(\w+)', sql_lower): the groups of the matches, left to right
RECURSIVE JoinMatches(_, _)
JoinMatches(sql_lower, i) ==
    IF i > Len(sql_lower) THEN <<>>
    ELSE IF WordThenRunAt(sql_lower, <<"j","o","i","n">>, "w", i)
         THEN LET a == RunEnd(sql_lower, i + 4, "s") + 1
                  b == RunEnd(sql_lower, a, "w")
              IN <<Slice(sql_lower, a, b)>> \o JoinMatches(sql_lower, b + 1)
    ELSE JoinMatches(sql_lower, i + 1)

MentionedTables(sql_lower) ==
    LET from_match == WordThenRun(sql_lower, <<"f","r","o","m">>, "w")
    IN (IF from_match # {}
        THEN <<GroupAt(sql_lower, <<"f","r","o","m">>, "w", Least(from_match))>>
        ELSE <<>>) \o JoinMatches(sql_lower, 1)

MsgNoTable(table) == <<"Table '">> \o table \o <<"' does not exist in schema">>

validate_against_schema(sql, state) ==
    LET available_tables == {lower(state.available_tables[k]) :
                                 k \in 1..Len(state.available_tables)}
        Missing(table) == table \notin available_tables
    IN Bind(lower(sql), LAMBDA sql_lower :
          Bind(SelectSeq(MentionedTables(sql_lower), Missing), LAMBDA missing :
             [k \in 1..Len(missing) |-> MsgNoTable(missing[k])]))

validate_against_intent(sql, state) ==
    LET intent == state.query_intent
        sql_lower == lower(sql)
    IN (IF Contains(sql_lower, <<"s","e","l","e","c","t"," ","*">>) /\ intent.action # "retrieve"
        THEN <<<<"Query uses SELECT * but specific columns were requested">>>> ELSE <<>>)
       \o (IF intent.action = "top_n" /\ ~Contains(sql_lower, <<"l","i","m","i","t">>)
           THEN <<<<"Query should include LIMIT ", ToString(intent.limit)>>>> ELSE <<>>)
       \o (IF intent.action = "count" /\ ~Contains(sql_lower, <<"c","o","u","n","t","(">>)
           THEN <<<<"Query should use COUNT() for counting">>>> ELSE <<>>)
       \o (IF intent.action = "top_n" /\ ~Contains(sql_lower, <<"o","r","d","e","r"," ","b","y">>)
           THEN <<<<"Query should include ORDER BY for top N results">>>> ELSE <<>>)

ValidateSQLNode_flag_only(state) ==
    LET v == validate(state.generated_sql)
    IN [state EXCEPT
          !.is_valid = ~v.raised,
          !.validation_errors = <<>>,
          !.validation_warnings = <<>>,
          !.status = VALIDATING]

ValidateSQLNode(state) ==
    LET sql == state.generated_sql
    IN IF ~Truthy(sql)
       THEN [state EXCEPT
               !.is_valid = FALSE,
               !.validation_errors = <<<<"No SQL query generated">>>>,
               !.status = FAILED]
       ELSE LET v == validate(sql)
            IN IF v.raised
               THEN [state EXCEPT
                       !.is_valid = FALSE,
                       !.validation_errors = <<v.msg>>,
                       !.validation_warnings = <<>>,
                       !.status = VALIDATING]
               ELSE LET all_errors == validate_against_schema(sql, state)
                        all_warnings == validate_against_intent(sql, state)
                    IN [state EXCEPT
                          !.is_valid = v.value /\ Len(all_errors) = 0,
                          !.validation_errors = all_errors,
                          !.validation_warnings = all_warnings,
                          !.complexity = get_query_complexity(sql),
                          !.status = VALIDATING]

(***************************************************************************)
(* RefineSQLNode (agent/nodes.py:296-355)                                  *)
(***************************************************************************)
\* the lines "  - <item>" of a list of messages
RECURSIVE Bullets(_)
Bullets(items) ==
    IF items = <<>> THEN <<>> ELSE <<"\n", "  - ">> \o Head(items) \o Bullets(Tail(items))

build_refinement_feedback(state) ==
    <<"Issues found with the query:">>
       \o (IF state.validation_errors # <<>>
           THEN <<"\n", "\nErrors:">> \o Bullets(state.validation_errors) ELSE <<>>)
       \o (IF state.validation_warnings # <<>>
           THEN <<"\n", "\nWarnings:">> \o Bullets(state.validation_warnings) ELSE <<>>)
       \o <<"\n", "\nPlease fix these issues and regenerate the SQL.">>

RefineSQLNode(state, response) ==
    LET feedback == build_refinement_feedback(state)
        r == refine_query(response)
    IN IF r.raised
       THEN [state EXCEPT
               !.error_message = <<"Failed to refine SQL: ">> \o r.msg,
               !.status = FAILED]
       ELSE [state EXCEPT
               !.generated_sql = r.value,
               !.refinement_feedback = feedback,
               !.needs_refinement = FALSE,
               !.generation_attempt = state.generation_attempt + 1,
               !.status = REFINING]

(***************************************************************************)
(* ExecuteSQLNode (agent/nodes.py:358-401).  x is the outcome of           *)
(* self.executor.execute(state['generated_sql'], format_type='dict').      *)
(***************************************************************************)
ExecuteCallKwargs == {"format_type"}
ExecuteTime == <<"seconds">>

ExecuteSQLNode(state, x) ==
    IF x.raised
    THEN [state EXCEPT
            !.query_results = None, !.execution_error = x.msg, !.status = FAILED]
    ELSE IF x.success
    THEN IF {"data", "execution_time", "row_count"} \subseteq x.keys
         THEN [state EXCEPT
                 !.query_results = x.rows,
                 !.execution_time = ExecuteTime,
                 !.row_count = Len(x.rows),
                 !.execution_error = None,
                 !.status = EXECUTING]
         ELSE [state EXCEPT
                 !.query_results = None,
                 !.execution_error = <<"'data'">>,
                 !.status = FAILED]
    ELSE [state EXCEPT
            !.query_results = None,
            !.execution_error =
                IF "error" \in x.keys THEN x.error ELSE <<"Unknown execution error">>,
            !.status = FAILED]

(***************************************************************************)
(* Routing functions (agent/edges.py)                                      *)
(***************************************************************************)
should_refine_sql_errors_first(state) ==
    IF state.is_valid THEN "execute"
    ELSE IF state.validation_errors # <<>> THEN "refine"
    ELSE IF state.generation_attempt >= state.max_attempts THEN "end_with_error"
    ELSE IF state.validation_warnings # <<>> THEN "execute"
    ELSE "end_with_error"

should_refine_sql_warnings_first(state) ==
    IF state.is_valid THEN "execute"
    ELSE IF state.generation_attempt >= state.max_attempts THEN "end_with_error"
    ELSE IF state.validation_warnings # <<>> THEN "execute"
    ELSE IF state.validation_errors # <<>> THEN "refine"
    ELSE "end_with_error"
should_refine_sql(state) ==
    IF state.is_valid THEN "execute"
    ELSE IF state.generation_attempt >= state.max_attempts THEN "end_with_error"
    ELSE IF state.validation_errors # <<>> THEN "refine"
    ELSE IF state.validation_warnings # <<>> /\ ~(state.validation_errors # <<>>)
         THEN "execute"
    ELSE "end_with_error"

should_continue_after_generation_late(state) ==
    IF Truthy(state.generated_sql) THEN "validate"
    ELSE IF state.generation_attempt <= state.max_attempts THEN "generate"
    ELSE "end_with_error"

should_continue_after_generation(state) ==
    IF Truthy(state.generated_sql) THEN "validate"
    ELSE IF state.generation_attempt < state.max_attempts THEN "generate"
    ELSE "end_with_error"

should_continue_after_execution_rows(state) ==
    IF Truthy(state.query_results) THEN "format"
    ELSE IF Truthy(state.execution_error)
         THEN IF state.generation_attempt < state.max_attempts
              THEN "refine" ELSE "end_with_error"
    ELSE "end_with_error"

should_continue_after_execution_by_status(state) ==
    IF state.query_results # None THEN "format"
    ELSE IF state.status = FAILED
         THEN IF state.generation_attempt < state.max_attempts
              THEN "refine" ELSE "end_with_error"
    ELSE "end_with_error"

should_continue_after_execution_any_attempt(state) ==
    IF state.query_results # None THEN "format"
    ELSE IF Truthy(state.execution_error) THEN "refine"
    ELSE "end_with_error"

should_continue_after_execution(state) ==
    IF state.query_results # None THEN "format"
    ELSE IF Truthy(state.execution_error)
         THEN IF state.generation_attempt < state.max_attempts
              THEN "refine" ELSE "end_with_error"
    ELSE "end_with_error"

(***************************************************************************)
(* NLToSQLGraph (agent/graph.py)                                           *)
(***************************************************************************)
END == "END"
\* the path maps of add_conditional_edges
AfterGenerate(label) ==
    CASE label = "validate" -> "validate"
      [] label = "generate" -> "generate"
      [] label = "end_with_error" -> END
AfterValidate(label) ==
    CASE label = "execute" -> "execute"
      [] label = "refine" -> "refine"
      [] label = "end_with_error" -> END
AfterExecute(label) ==
    CASE label = "format" -> "format"
      [] label = "refine" -> "refine"
      [] label = "end_with_error" -> END

\* the except clause of invoke: what the caller gets for an exception with text e
invoke_reraise(e) == Raised(e)
invoke_except(e) ==
    Returned([status |-> "failed",
              error_message |-> e,
              formatted_response |-> <<"I encountered an error processing your query: ">> \o e])

(***************************************************************************)
(* QueryCache (utils/helpers.py:14-68): an OrderedDict of at most maxsize  *)
(* entries, the least recently used entry first.                           *)
(***************************************************************************)
MaxSize == 2
MaxOps == 5

\* cache keys and cached values (the application uses "session:question" texts and
\* result payloads)
CacheKeys == 1..(MaxSize + 1)
CacheValues == {"v1", "v2"}

KeysOf(od) == {od[i].key : i \in DOMAIN od}
ValueOf(od, key) == od[CHOOSE i \in DOMAIN od : od[i].key = key].value

\* OrderedDict.move_to_end(key)
move_to_end(od, key) ==
    SelectSeq(od, LAMBDA e : e.key # key) \o SelectSeq(od, LAMBDA e : e.key = key)

\* OrderedDict.__setitem__: a present key keeps its place, a new key goes last
setitem(od, key, value) ==
    IF key \in KeysOf(od)
    THEN [i \in DOMAIN od |-> IF od[i].key = key THEN [key |-> key, value |-> value] ELSE od[i]]
    ELSE Append(od, [key |-> key, value |-> value])

\* OrderedDict.popitem(last=False); KeyError on an empty dictionary
MsgPopEmpty == <<"'dictionary is empty'">>

\* QueryCache.get: the dictionary afterwards and the value returned
QueryCache_get_no_touch(od, key) ==
    IF key \in KeysOf(od)
    THEN [cache |-> od, value |-> ValueOf(od, key)]
    ELSE [cache |-> od, value |-> None]

QueryCache_get(od, key) ==
    IF key \in KeysOf(od)
    THEN [cache |-> move_to_end(od, key), value |-> ValueOf(od, key)]
    ELSE [cache |-> od, value |-> None]

\* QueryCache.set: the dictionary afterwards, or the exception raised
QueryCache_set_late(od, size, key, value) ==
    IF key \in KeysOf(od)
    THEN [raised |-> FALSE, msg |-> <<>>, cache |-> setitem(move_to_end(od, key), key, value)]
    ELSE IF Len(od) > size
    THEN [raised |-> FALSE, msg |-> <<>>, cache |-> setitem(Tail(od), key, value)]
    ELSE [raised |-> FALSE, msg |-> <<>>, cache |-> setitem(od, key, value)]

QueryCache_set_successes_only(od, size, key, value) ==
    IF "error_message" \in DOMAIN value.state /\ value.state.error_message \notin {None, <<>>}
    THEN [raised |-> FALSE, msg |-> <<>>, cache |-> od]
    ELSE IF key \in KeysOf(od)
    THEN [raised |-> FALSE, msg |-> <<>>, cache |-> setitem(move_to_end(od, key), key, value)]
    ELSE IF Len(od) >= size
    THEN IF od = <<>>
         THEN [raised |-> TRUE, msg |-> MsgPopEmpty, cache |-> od]
         ELSE [raised |-> FALSE, msg |-> <<>>, cache |-> setitem(Tail(od), key, value)]
    ELSE [raised |-> FALSE, msg |-> <<>>, cache |-> setitem(od, key, value)]

QueryCache_set(od, size, key, value) ==
    IF key \in KeysOf(od)
    THEN [raised |-> FALSE, msg |-> <<>>, cache |-> setitem(move_to_end(od, key), key, value)]
    ELSE IF Len(od) >= size
    THEN IF od = <<>>
         THEN [raised |-> TRUE, msg |-> MsgPopEmpty, cache |-> od]
         ELSE [raised |-> FALSE, msg |-> <<>>, cache |-> setitem(Tail(od), key, value)]
    ELSE [raised |-> FALSE, msg |-> <<>>, cache |-> setitem(od, key, value)]

\* QueryCache.clear
QueryCache_clear_oldest(od) == IF od = <<>> THEN od ELSE Tail(od)

QueryCache_clear(od) == <<>>

(***************************************************************************)
(* ConversationManager (agent/conversation_manager.py:13-260).  A Python   *)
(* dictionary is a function on its keys; a list of names is a sequence of  *)
(* strings.                                                                *)
(***************************************************************************)
MaxHistory == 1
MaxMsgs == 3

SessionIds == {"s1", "s2"}
\* the application adds a user message, then the assistant's answer, and so on
RoleOf(n) == IF n % 2 = 0 THEN "user" ELSE "assistant"
TableLists == {None, <<>>, <<"items">>}
ColumnLists == {None, <<"price">>}
Intents == {None, <<"retrieve">>}

EmptyDict == <<>>
\* dict[key] = value
dict_set(dct, key, value) == (key :> value) @@ dct
\* dict.get(key, default)
dict_get(dct, key, default) == IF key \in DOMAIN dct THEN dct[key] ELSE default

\* the context a session starts with and is reset to (the time of day is left out)
FreshContext ==
    [last_tables |-> <<>>, last_columns |-> <<>>, last_intent |-> None,
     created_at |-> <<"now">>]

\* list[-n:], which is the whole list for n = 0
LastN(list, n) ==
    IF n = 0 \/ n >= Len(list) THEN list
    ELSE SubSeq(list, Len(list) - n + 1, Len(list))

\* add_message: the sessions dictionary afterwards
add_message_keep_first(sess, maxh, session_id, message) ==
    LET s1 == IF session_id \notin DOMAIN sess THEN dict_set(sess, session_id, <<>>) ELSE sess
        s2 == dict_set(s1, session_id, Append(s1[session_id], message))
    IN IF Len(s2[session_id]) > maxh * 2
       THEN dict_set(s2, session_id, SubSeq(s2[session_id], 1, maxh * 2))
       ELSE s2

add_message_in_front(sess, maxh, session_id, message) ==
    LET s1 == IF session_id \notin DOMAIN sess THEN dict_set(sess, session_id, <<>>) ELSE sess
        s2 == dict_set(s1, session_id, <<message>> \o s1[session_id])
    IN IF Len(s2[session_id]) > maxh * 2
       THEN dict_set(s2, session_id, LastN(s2[session_id], maxh * 2))
       ELSE s2

add_message_below_cap(sess, maxh, session_id, message) ==
    LET s1 == IF session_id \notin DOMAIN sess THEN dict_set(sess, session_id, <<>>) ELSE sess
        s2 == dict_set(s1, session_id, Append(s1[session_id], message))
    IN IF Len(s2[session_id]) >= maxh * 2
       THEN dict_set(s2, session_id, LastN(s2[session_id], maxh * 2 - 1))
       ELSE s2

add_message(sess, maxh, session_id, message) ==
    LET s1 == IF session_id \notin DOMAIN sess THEN dict_set(sess, session_id, <<>>) ELSE sess
        s2 == dict_set(s1, session_id, Append(s1[session_id], message))
    IN IF Len(s2[session_id]) > maxh * 2
       THEN dict_set(s2, session_id, LastN(s2[session_id], maxh * 2))
       ELSE s2

get_history(sess, session_id) == dict_get(sess, session_id, <<>>)

get_context(ctx, session_id) == dict_get(ctx, session_id, EmptyDict)

session_exists(sess, session_id) == session_id \in DOMAIN sess

get_all_sessions(sess) == DOMAIN sess

\* update_context: the context_memory dictionary afterwards
update_context(ctx, session_id, tables, columns, intent) ==
    LET c0 == IF session_id \notin DOMAIN ctx THEN dict_set(ctx, session_id, EmptyDict) ELSE ctx
        c1 == IF Truthy(tables)
              THEN dict_set(c0, session_id, dict_set(c0[session_id], "last_tables", tables))
              ELSE c0
        c2 == IF Truthy(columns)
              THEN dict_set(c1, session_id, dict_set(c1[session_id], "last_columns", columns))
              ELSE c1
    IN IF Truthy(intent)
       THEN dict_set(c2, session_id, dict_set(c2[session_id], "last_intent", intent))
       ELSE c2

\* create_session: both dictionaries afterwards, for the new identifier
create_session(sess, ctx, session_id) ==
    [sessions |-> dict_set(sess, session_id, <<>>),
     context_memory |-> dict_set(ctx, session_id, FreshContext)]

\* clear_session: both dictionaries afterwards
clear_session_forget(sess, ctx, session_id) ==
    [sessions |-> [s \in DOMAIN sess \ {session_id} |-> sess[s]],
     context_memory |-> [s \in DOMAIN ctx \ {session_id} |-> ctx[s]]]

clear_session_everyone(sess, ctx, session_id) ==
    [sessions |-> IF session_id \in DOMAIN sess THEN [s \in DOMAIN sess |-> <<>>] ELSE sess,
     context_memory |-> IF session_id \in DOMAIN ctx
                        THEN [s \in DOMAIN ctx |-> FreshContext]
                        ELSE ctx]

clear_session(sess, ctx, session_id) ==
    [sessions |-> IF session_id \in DOMAIN sess THEN dict_set(sess, session_id, <<>>) ELSE sess,
     context_memory |-> IF session_id \in DOMAIN ctx
                        THEN dict_set(ctx, session_id, FreshContext)
                        ELSE ctx]

(***************************************************************************)
(* ConversationManager.resolve_references                                  *)
(* (agent/conversation_manager.py:152-177)                                 *)
(***************************************************************************)
\* the characters of the table and column names
NameText ==
    [items |-> <<"i","t","e","m","s">>, products |-> <<"p","r","o","d","u","c","t","s">>,
     T |-> <<"T">>, id |-> <<"i","d">>, a |-> <<"a">>]

\* str.replace(old, new): every occurrence, left to right, without overlap
RECURSIVE str_replace(_, _, _)
str_replace(text, old, new) ==
    IF Len(text) < Len(old) THEN text
    ELSE IF StartsAt(text, old, 1)
    THEN new \o str_replace(SubSeq(text, Len(old) + 1, Len(text)), old, new)
    ELSE <<Head(text)>> \o str_replace(Tail(text), old, new)

PluralReferences == <<<<"t","h","e","m">>, <<"t","h","o","s","e">>, <<"t","h","e","s","e">>>>

resolve_references(ctx, session_id, query) ==
    LET context == get_context(ctx, session_id)
        query_lower == lower(query)
        known == Truthy(dict_get(context, "last_tables", None))
        q1 == IF (\E r \in DOMAIN PluralReferences : Contains(query_lower, PluralReferences[r]))
                 /\ known
              THEN str_replace(
                       str_replace(
                           str_replace(query, <<"t","h","e","m">>, NameText[context.last_tables[1]]),
                           <<"t","h","o","s","e">>, NameText[context.last_tables[1]]),
                       <<"t","h","e","s","e">>, NameText[context.last_tables[1]])
              ELSE query
    IN IF Contains(query_lower, <<"i","t">>) /\ known
       THEN str_replace(q1, <<"i","t">>, NameText[context.last_tables[1]])
       ELSE q1

(***************************************************************************)
(* ConversationalNLToSQLAgent.process_query (app.py:144-275) and           *)
(* ConversationManager.format_conversational_response                      *)
(* (agent/conversation_manager.py:179-222).  The pictographs that open the *)
(* lines of a response are left out of the texts, and the fences of a code *)
(* block are written [sql] and [/sql].                                     *)
(***************************************************************************)
AppMaxHistory == 10
AppCacheSize == 50

Commands ==
    {<<"q","u","i","t">>, <<"e","x","i","t">>, <<"b","y","e">>, <<"q">>, <<"s","c","h","e","m","a">>, <<"c","l","e","a","r">>, <<"h","e","l","p">>, <<"?">>, <<"t","a","b","l","e","s">>}

\* "\n".join(parts)
RECURSIVE JoinLines(_)
JoinLines(parts) ==
    IF parts = <<>> THEN <<>>
    ELSE IF Len(parts) = 1 THEN parts[1]
    ELSE parts[1] \o <<"\n">> \o JoinLines(Tail(parts))

format_conversational_response(final_state, include_sql) ==
    LET formatted_response == dict_get(final_state, "formatted_response", <<>>)
        summary == dict_get(final_state, "result_summary", <<>>)
        generated_sql == dict_get(final_state, "generated_sql", None)
        sql_explanation == dict_get(final_state, "sql_explanation", None)
        warnings == dict_get(final_state, "validation_warnings", <<>>)
    IN JoinLines(
          (IF Truthy(formatted_response) THEN <<formatted_response>> ELSE <<>>)
          \o (IF Truthy(summary) THEN <<<<"\n">> \o summary>> ELSE <<>>)
          \o (IF include_sql /\ Truthy(generated_sql)
              THEN <<<<"\n", "SQL Query:">>, <<"[sql]", "\n">> \o generated_sql \o <<"\n", "[/sql]">>>>
              ELSE <<>>)
          \o (IF Truthy(sql_explanation) THEN <<<<"\n">> \o sql_explanation>> ELSE <<>>)
          \o (IF warnings # <<>>
              THEN <<<<"\n", "Notes:">>>> \o [k \in DOMAIN warnings |-> <<"  - ">> \o warnings[k]]
              ELSE <<>>))

RephraseHint == "Please try rephrasing your question or check 'help' for examples."

\* the response built from a final state: the error text with the hint, or the
\* conversational response
response_of(final_state, include_sql) ==
    IF Truthy(dict_get(final_state, "error_message", None))
    THEN <<"I encountered an error:\n">> \o final_state.error_message
            \o <<"\n\n", RephraseHint>>
    ELSE format_conversational_response(final_state, include_sql)

\* the key of the cache's basic mode: the lower-cased question alone
cache_key_no_session(session, text) == lower(text)

\* f"{session_id}:{user_query.lower()}"
cache_key(session, text) == <<session, ":">> \o lower(text)

\* the name of a table or column, from its characters
NameOf(text) == CHOOSE n \in DOMAIN NameText : NameText[n] = text
Names(list) == [k \in DOMAIN list |-> NameOf(list[k])]

\* the arguments process_query gives update_context
entities_tables(final_state) ==
    Names(dict_get(dict_get(final_state, "detected_entities", EmptyDict), "tables", <<>>))
entities_columns(final_state) ==
    Names(dict_get(dict_get(final_state, "detected_entities", EmptyDict), "columns", <<>>))
intent_action(final_state) ==
    LET action == dict_get(dict_get(final_state, "query_intent", EmptyDict), "action", "")
    IN IF action = "" THEN None ELSE <<action>>

(***************************************************************************)
(* DatabaseConnection.execute_query (database/connection.py:57-100).  The  *)
(* driver either raises or hands back the rows as tuples in the order of   *)
(* the result's columns.                                                   *)
(***************************************************************************)
ResultColumns == <<"id", "name">>

\* dict(zip(columns, row))
dict_zip(columns, row) ==
    [c \in {columns[i] : i \in DOMAIN columns} |->
        row[CHOOSE i \in DOMAIN columns : columns[i] = c]]

\* execute_query, given what the driver did and settings.max_query_results
execute_query_swallow(driver, max_results) ==
    IF driver.raised THEN Returned(<<>>)
    ELSE IF driver.rows # <<>>
    THEN LET data == [i \in DOMAIN driver.rows |-> dict_zip(driver.columns, driver.rows[i])]
         IN IF Len(data) > max_results
            THEN Returned(SubSeq(data, 1, max_results))
            ELSE Returned(data)
    ELSE Returned(<<>>)

execute_query(driver, max_results) ==
    IF driver.raised THEN Raised(<<"Query execution error: ">> \o driver.msg)
    ELSE IF driver.rows # <<>>
    THEN LET data == [i \in DOMAIN driver.rows |-> dict_zip(driver.columns, driver.rows[i])]
         IN IF Len(data) > max_results
            THEN Returned(SubSeq(data, 1, max_results))
            ELSE Returned(data)
    ELSE Returned(<<>>)

(***************************************************************************)
(* Inputs of the pure functions: a prefix followed by at most MaxPieces    *)
(* pieces, at most one of them a denylisted word in some letter case.      *)
(***************************************************************************)
MaxPieces == 2

Prefixes == {<<>>, <<"S","E","L","E","C","T"," ">>, <<"s","e","l","e","c","t"," ">>, <<"W","i","t","h"," ">>, <<" ">>}
KeywordPieces ==
    {DANGEROUS_KEYWORDS[k] : k \in 1..Len(DANGEROUS_KEYWORDS)}
        \cup {<<"d","r","o","p">>, <<"D","e","l","e","t","e">>}
GluePieces ==
    {<<"S","E","L","E","C","T">>, <<" ">>, <<"d","o","w","n">>, <<";">>, <<"'">>, <<"-","-">>, <<"_">>}

RECURSIVE Flatten(_)
Flatten(ps) == IF ps = <<>> THEN <<>> ELSE Head(ps) \o Flatten(Tail(ps))

PieceSeqs ==
    UNION {[1..n -> GluePieces \cup KeywordPieces] : n \in 0..MaxPieces}
SqlInputs ==
    {pre \o Flatten(ps) :
        pre \in Prefixes,
        ps \in {p \in PieceSeqs :
                   Cardinality({i \in DOMAIN p : p[i] \in KeywordPieces}) <= 1}}

\* the questions put to the workflow
Questions ==
    {<<"s","h","o","w"," ","t">>, <<"h","o","w"," ","m","a","n","y"," ","t">>, <<"t","o","p"," ","3"," ","t">>, <<"a","v","g"," ","a">>}
\* the schema the schema manager reports
TableNames == <<<<"T">>>>
ColumnsDict == <<<<<<"T">>, <<<<"i","d">>, <<"a">>>>>>>>
\* the SQL texts _extract_sql may take from an answer (stripped, or empty, or None)
SqlPool ==
    {<<"S","E","L","E","C","T"," ","a"," ","F","R","O","M"," ","t">>, <<"S","E","L","E","C","T"," ","*"," ","F","R","O","M"," ","t">>, <<"S","E","L","E","C","T"," ","a"," ","F","R","O","M"," ","u">>,
     <<"s","e","l","e","c","t"," ","a"," ","f","r","o","m"," ","t"," ","j","o","i","n"," ","u">>, <<"D","R","O","P"," ","T","A","B","L","E"," ","t">>}
Responses ==
    {ApiError(<<"503 unavailable">>), EmptyResponse, TextResponse(None)}
        \cup {TextResponse(sql) : sql \in SqlPool}
\* exceptions the schema manager and the graph library may raise inside invoke
SchemaErrors == {<<"'NoneType' object has no attribute 'items'">>}
GraphErrors == {<<"Recursion limit of 25 reached without hitting a stop condition.">>}

\* history counters and the node trace stop growing at these lengths
MaxCalls == 4
MaxTrace == 6
Inc(n) == IF n < MaxCalls THEN n + 1 ELSE n
Visit(trace, n) == IF Len(trace) < MaxTrace THEN Append(trace, n) ELSE trace

(***************************************************************************)
(* NLToSQLGraph.invoke (agent/graph.py:137-187) as a function of the       *)
(* answers of the services: `answers` are the answers of the language      *)
(* model to the calls of generate_sql and refine_query, in order.  A run   *)
(* that needs more answers than it was given is ended by the graph library *)
(* (its step limit), as in GraphRaise.                                     *)
(***************************************************************************)
RECURSIVE run_graph(_, _, _)
run_graph(st, nd, answers) ==
    CASE nd = END -> Returned(st)
      [] nd = "understand" ->
           Bind(UnderstandQueryNode(st), LAMBDA after : run_graph(after, "generate", answers))
      [] nd = "generate" ->
           IF answers = <<>> THEN Raised(CHOOSE e \in GraphErrors : TRUE)
           ELSE Bind(GenerateSQLNode(st, Head(answers)),
                     LAMBDA after :
                         run_graph(after, AfterGenerate(should_continue_after_generation(after)),
                                   Tail(answers)))
      [] nd = "validate" ->
           Bind(ValidateSQLNode(st),
                LAMBDA after : run_graph(after, AfterValidate(should_refine_sql(after)), answers))
      [] nd = "refine" ->
           IF answers = <<>> THEN Raised(CHOOSE e \in GraphErrors : TRUE)
           ELSE Bind(RefineSQLNode(st, Head(answers)),
                     LAMBDA after : run_graph(after, "validate", Tail(answers)))
      [] nd = "execute" ->
           \* the call names format_type, so execute has the single outcome TypeError
           Bind(ExecuteSQLNode(st, CHOOSE o \in QueryExecutor_execute(st.generated_sql,
                                                                       ExecuteCallKwargs) : TRUE),
                LAMBDA after :
                    run_graph(after, AfterExecute(should_continue_after_execution(after)),
                              answers))

\* service.schema is the exception text of a schema manager getter, or None
invoke_run(user_query, session_id, service) ==
    IF service.schema # None THEN invoke_except(service.schema)
    ELSE Bind(run_graph(create_initial_state(user_query, TableNames, ColumnsDict,
                                             <<session_id>>),
                        "understand", service.answers),
              LAMBDA r : IF r.raised THEN invoke_except(r.msg) ELSE r)

\* The calls of process_query that are examined: questions for the workflow, and
\* commands and blank input in several spellings
WorkflowQuestions == {<<"s","h","o","w"," ","t">>, <<" ","S","H","O","W"," ","T"," ">>, <<"a","v","g"," ","a">>}
CommandInputs ==
    {<<"q","u","i","t">>, <<"E","x","i","t">>, <<"b","y","e">>, <<"Q">>, <<"s","c","h","e","m","a">>, <<" ","C","L","E","A","R">>, <<"h","e","l","p">>, <<"?">>, <<"T","a","b","l","e","s">>,
     <<>>, <<" "," ">>}
AppQuestions == WorkflowQuestions \cup CommandInputs
\* the session_id argument: none, or an identifier
SessionArgs == {None} \cup {<<s>> : s \in SessionIds}
\* what the services do during one call: the schema manager fails, or the language
\* model gives these answers
Answers(response) == [schema |-> None, answers |-> <<response, response, response>>]
Services ==
    {[schema |-> CHOOSE e \in SchemaErrors : TRUE, answers |-> <<>>],
     [schema |-> None, answers |-> <<ApiError(<<"503 unavailable">>)>>],
     Answers(TextResponse(<<"S","E","L","E","C","T"," ","a"," ","F","R","O","M"," ","t">>)),
     Answers(ExplainedResponse(<<"S","E","L","E","C","T"," ","a"," ","F","R","O","M"," ","t">>, <<>>))}

\* the compiled graph object (app.py:46, agent/graph.py:74-135): the runs of invoke it
\* holds for the examined questions; any other call is run on the spot
InvokeInputs == {strip(q) : q \in WorkflowQuestions} \X SessionIds \X Services
CompiledGraph == [k \in InvokeInputs |-> invoke_run(k[1], k[2], k[3])]
invoke(compiled, user_query, session_id, service) ==
    IF <<user_query, session_id, service>> \in DOMAIN compiled
    THEN compiled[<<user_query, session_id, service>>]
    ELSE invoke_run(user_query, session_id, service)

(***************************************************************************)
(* ConversationalNLToSQLAgent.process_query (app.py:144-275) as a function *)
(* of the agent's components (`app`: the cache with its capacity, the      *)
(* conversation manager's dictionaries and max_history, the message clock *)
(* and current_session) and of the call's arguments.  It gives the payload *)
(* returned, or the exception raised, and the components afterwards.       *)
(***************************************************************************)
Farewell == <<"Goodbye! Have a great day!">>
SchemaInfo == <<"DATABASE SCHEMA">>
ClearedText == <<"Cache and conversation history cleared!">>
HelpText == <<"Available Commands:">>
EnterQuery == <<"Please enter a query.">>
TablesText ==
    <<"Available Tables:", "\n">>
        \o JoinLines([k \in DOMAIN TableNames |-> <<"  - ">> \o TableNames[k]])

Reply(formatted_response, exit) == [formatted_response |-> formatted_response, exit |-> exit]

\* the outcome of one call
Outcome(app, raised, payload, invoked, session_id) ==
    [raised |-> raised, payload |-> payload, invoked |-> invoked,
     session_id |-> session_id, app |-> app]

\* lines 196-275: the question is no command
answer_question(app, sid, text, show_sql, service) ==
    LET key == cache_key(sid, text)
        hit == key \in KeysOf(app.cache)
        got == QueryCache_get(app.cache, key)
    IN IF hit
       THEN \* a payload is a non-empty dictionary, so `if cached_result` holds
            Outcome([app EXCEPT !.cache = got.cache], FALSE, got.value, FALSE, sid)
       ELSE LET resolved_query == resolve_references(app.context_memory, sid, text)
                invoked == invoke(app.graph, resolved_query, sid, service)
            IN IF invoked.raised
               THEN Outcome(app, FALSE,
                            Reply(<<"I encountered an error: ">> \o invoked.msg
                                     \o <<"\n\n", "Please try rephrasing your question.">>,
                                  FALSE),
                            TRUE, sid)
               ELSE
            LET final_state == invoked.value
                reply == response_of(final_state, show_sql)
                s1 == add_message(app.sessions, app.max_history, sid,
                                  [role |-> "user", content |-> text,
                                   timestamp |-> app.added[sid] + 1,
                                   metadata |-> EmptyDict])
                s2 == add_message(s1, app.max_history, sid,
                                  [role |-> "assistant", content |-> reply,
                                   timestamp |-> app.added[sid] + 2,
                                   metadata |->
                                     [sql |-> dict_get(final_state, "generated_sql", None),
                                      execution_time |->
                                          dict_get(final_state, "execution_time", None),
                                      row_count |-> dict_get(final_state, "row_count", -1)]])
                ctx == update_context(app.context_memory, sid, entities_tables(final_state),
                                      entities_columns(final_state),
                                      intent_action(final_state))
                value == [formatted_response |-> reply, state |-> final_state,
                          exit |-> FALSE]
                stored == QueryCache_set(got.cache, app.maxsize, key, value)
                told == [app EXCEPT !.sessions = s2, !.context_memory = ctx,
                                    !.added = [@ EXCEPT ![sid] = @ + 2]]
            IN IF stored.raised
               THEN Outcome(told, FALSE,
                            Reply(<<"I encountered an error: ">> \o stored.msg
                                     \o <<"\n\n", "Please try rephrasing your question.">>,
                                  FALSE),
                            TRUE, sid)
               ELSE Outcome([told EXCEPT !.cache = stored.cache], FALSE, value, TRUE, sid)

process_query(app, user_query, session_id, show_sql, service) ==
    LET new == ~Truthy(session_id)
        sid == IF new
               THEN CHOOSE s \in SessionIds :
                        s \notin DOMAIN app.sessions \cup DOMAIN app.context_memory
               ELSE session_id[1]
        started == IF new THEN create_session(app.sessions, app.context_memory, sid)
                   ELSE [sessions |-> app.sessions, context_memory |-> app.context_memory]
        app1 == [app EXCEPT !.sessions = started.sessions,
                            !.context_memory = started.context_memory,
                            !.current_session = IF new THEN <<sid>> ELSE @]
        text == strip(user_query)
        command == lower(text)
    IN IF text = <<>> THEN Outcome(app1, FALSE, Reply(EnterQuery, FALSE), FALSE, sid)
       ELSE IF command \in {<<"q","u","i","t">>, <<"e","x","i","t">>, <<"b","y","e">>, <<"q">>}
            THEN Outcome(app1, FALSE, Reply(Farewell, TRUE), FALSE, sid)
       ELSE IF command = <<"s","c","h","e","m","a">>
            THEN Outcome(app1, FALSE, Reply(SchemaInfo, FALSE), FALSE, sid)
       ELSE IF command = <<"c","l","e","a","r">>
            THEN LET cleared == clear_session(app1.sessions, app1.context_memory, sid)
                 IN Outcome([app1 EXCEPT !.cache = QueryCache_clear(app1.cache),
                                         !.sessions = cleared.sessions,
                                         !.context_memory = cleared.context_memory],
                            FALSE, Reply(ClearedText, FALSE), FALSE, sid)
       ELSE IF command \in {<<"h","e","l","p">>, <<"?">>}
            THEN Outcome(app1, FALSE, Reply(HelpText, FALSE), FALSE, sid)
       ELSE IF command = <<"t","a","b","l","e","s">>
            THEN Outcome(app1, FALSE, Reply(TablesText, FALSE), FALSE, sid)
       ELSE answer_question(app1, sid, text, show_sql, service)

VARIABLES sqlIn, vDone, vOut, xDone, xOut
VARIABLES user_query, pc, state, node, prev, route, result, excText,
          visited, genCalls, genFails, refineCalls, execOut
\* one call of a library function: its argument, whether it returned, its outcome
\* process_query: the question it was given, the session it uses and the payload
\* it returns; how many calls were made, which questions were answered in which
\* session since the cache was last cleared (with the payload returned and the
\* context memory of that moment), and the runs of the compiled graph
VARIABLES question, current_session, payload, asks, answered, graph
\* run_interactive: where its loop stands and what the last pass of the loop met
VARIABLES loop, event
VARIABLES arg, done, out
\* a QueryCache: its OrderedDict (oldest entry first), its capacity, the calls made on
\* it so far and the OrderedDict as it was before the last call
VARIABLES cache, maxsize, calls, cacheBefore
\* a ConversationManager: its two dictionaries and max_history, and for each session
\* how many messages add_message was given since the session began or was cleared
VARIABLES sessions, context_memory, max_history, added

sqlVars == <<sqlIn, vDone, vOut, xDone, xOut>>
graphVars == <<state, node, prev, route, visited,
               genCalls, genFails, refineCalls, execOut>>
appVars == <<question, current_session, payload, asks, answered, graph, loop, event>>
flowVars == <<user_query, pc, result, excText, graphVars, appVars>>
callVars == <<arg, done, out>>
cacheVars == <<cache, maxsize, calls, cacheBefore>>
convVars == <<sessions, context_memory, max_history, added>>
libVars == <<callVars, cacheVars, convVars>>
vars == <<sqlVars, flowVars, libVars>>

NoState == [status |-> "<no state>"]
NoResult == [status |-> "<no result>"]
NoEvent == [kind |-> "", outcome |-> ""]

SqlIdle ==
    /\ sqlIn = <<>>
    /\ vDone = FALSE /\ vOut = Returned(FALSE)
    /\ xDone = FALSE /\ xOut = XRaised(<<>>)

GraphIdle ==
    /\ state = NoState /\ node = "" /\ prev = "" /\ route = "" /\ visited = <<>>
    /\ genCalls = 0 /\ genFails = 0 /\ refineCalls = 0
    /\ execOut = XRaised(<<>>)

FlowIdle ==
    /\ user_query = <<>> /\ pc = "idle" /\ result = NoResult /\ excText = None
    /\ GraphIdle
    /\ question = <<>> /\ current_session = None /\ payload = None
    /\ asks = 0 /\ answered = {} /\ graph = <<>>
    /\ loop = "idle" /\ event = NoEvent

CallIdle == arg = None /\ done = FALSE /\ out = None

CacheIdle == cache = <<>> /\ maxsize = 0 /\ calls = <<>> /\ cacheBefore = <<>>

ConvIdle ==
    /\ sessions = <<>> /\ context_memory = <<>> /\ max_history = 0 /\ added = <<>>

LibIdle == CallIdle /\ CacheIdle /\ ConvIdle

InitSql ==
    /\ sqlIn \in SqlInputs
    /\ vDone = FALSE /\ vOut = Returned(FALSE)
    /\ xDone = FALSE /\ xOut = XRaised(<<>>)
    /\ FlowIdle
    /\ LibIdle

\* validator.validate(sqlIn)
DoValidate ==
    /\ ~vDone
    /\ vDone' = TRUE
    /\ vOut' = validate(sqlIn)
    /\ UNCHANGED <<sqlIn, xDone, xOut, flowVars, libVars>>

\* executor.execute(sqlIn), as a direct caller calls it
DoExecute ==
    /\ ~xDone
    /\ xOut' \in QueryExecutor_execute(sqlIn, {})
    /\ xDone' = TRUE
    /\ UNCHANGED <<sqlIn, vDone, vOut, flowVars, libVars>>

NextSql == DoValidate \/ DoExecute

SpecSql == InitSql /\ [][NextSql]_vars

(***************************************************************************)
(* NLToSQLGraph.invoke (agent/graph.py:137-187) running the compiled graph *)
(* of _build_graph (agent/graph.py:74-135): one action per node, each      *)
(* followed by the routing of its outgoing edge.                           *)
(***************************************************************************)
\* The application is constructed (app.py:40-59) and process_query is given a question
\* and no session.
Init ==
    /\ SqlIdle
    /\ question \in Questions /\ user_query = <<>>
    /\ current_session = None /\ payload = None
    /\ asks = 0 /\ answered = {} /\ graph = <<>>
    /\ loop = "idle" /\ event = NoEvent
    /\ pc = "process" /\ result = NoResult /\ excText = None
    /\ GraphIdle
    /\ CallIdle
    /\ cache = <<>> /\ maxsize = AppCacheSize /\ calls = <<>> /\ cacheBefore = <<>>
    /\ sessions = EmptyDict /\ context_memory = EmptyDict
    /\ max_history = AppMaxHistory /\ added = [s \in SessionIds |-> 0]

\* invoke leaves through its except clause with the exception text e
Except(e) ==
    LET r == invoke_except(e)
    IN /\ excText' = e
       /\ pc' = IF r.raised THEN "raised" ELSE "returned"
       /\ result' = IF r.raised THEN NoResult ELSE r.value

\* the schema context is fetched and the initial state built; the graph starts at
\* its entry point
InvokeStart ==
    /\ pc = "invoke"
    /\ pc' = "graph"
    /\ state' = create_initial_state(user_query, TableNames, ColumnsDict, current_session)
    /\ node' = "understand"
    /\ UNCHANGED <<sqlVars, libVars, appVars, user_query, result, excText, prev, route, visited,
                   genCalls, genFails, refineCalls, execOut>>

\* a schema manager getter raises
InvokeSchemaError ==
    /\ pc = "invoke"
    /\ \E e \in SchemaErrors : Except(e)
    /\ UNCHANGED <<sqlVars, libVars, appVars, user_query, graphVars>>

Understand ==
    /\ pc = "graph" /\ node = "understand"
    /\ state' = UnderstandQueryNode(state)
    /\ node' = "generate"
    /\ route' = "generate"
    /\ prev' = node /\ visited' = Visit(visited, node)
    /\ UNCHANGED <<sqlVars, libVars, appVars, user_query, pc, result, excText,
                   genCalls, genFails, refineCalls, execOut>>

Generate ==
    /\ pc = "graph" /\ node = "generate"
    /\ \E response \in Responses :
          /\ state' = GenerateSQLNode(state, response)
          /\ genCalls' = Inc(genCalls)
          /\ genFails' = IF generate_sql(response).raised THEN Inc(genFails) ELSE genFails
    /\ route' = should_continue_after_generation(state')
    /\ node' = AfterGenerate(route')
    /\ prev' = node /\ visited' = Visit(visited, node)
    /\ UNCHANGED <<sqlVars, libVars, appVars, user_query, pc, result, excText,
                   refineCalls, execOut>>

Validate ==
    /\ pc = "graph" /\ node = "validate"
    /\ state' = ValidateSQLNode(state)
    /\ route' = should_refine_sql(state')
    /\ node' = AfterValidate(route')
    /\ prev' = node /\ visited' = Visit(visited, node)
    /\ UNCHANGED <<sqlVars, libVars, appVars, user_query, pc, result, excText,
                   genCalls, genFails, refineCalls, execOut>>

Refine ==
    /\ pc = "graph" /\ node = "refine"
    /\ \E response \in Responses :
          /\ state' = RefineSQLNode(state, response)
          /\ refineCalls' = Inc(refineCalls)
    /\ node' = "validate"
    /\ route' = "validate"
    /\ prev' = node /\ visited' = Visit(visited, node)
    /\ UNCHANGED <<sqlVars, libVars, appVars, user_query, pc, result, excText,
                   genCalls, genFails, execOut>>

Execute ==
    /\ pc = "graph" /\ node = "execute"
    /\ \E x \in QueryExecutor_execute(state.generated_sql, ExecuteCallKwargs) :
          /\ execOut' = x
          /\ state' = ExecuteSQLNode(state, x)
    /\ route' = should_continue_after_execution(state')
    /\ node' = AfterExecute(route')
    /\ prev' = node /\ visited' = Visit(visited, node)
    /\ UNCHANGED <<sqlVars, libVars, appVars, user_query, pc, result, excText,
                   genCalls, genFails, refineCalls>>

\* the graph library gives up on the run (its own step limit) and raises
GraphRaise ==
    /\ pc = "graph" /\ node # END
    /\ \E e \in GraphErrors : Except(e)
    /\ UNCHANGED <<sqlVars, libVars, appVars, user_query, graphVars>>

\* the graph reached END: invoke returns the final state
InvokeReturn ==
    /\ pc = "graph" /\ node = END
    /\ pc' = "returned"
    /\ result' = state
    /\ UNCHANGED <<sqlVars, libVars, appVars, user_query, excText, graphVars>>

\* process_query up to the call of the graph: a session is started when none was
\* given, the question is trimmed, it is no command and not in the cache, and its
\* references are resolved
ProcessStart ==
    /\ pc = "process"
    /\ LET new == ~Truthy(current_session)
           sid == IF new
                  THEN CHOOSE s \in SessionIds : s \notin DOMAIN sessions \cup DOMAIN context_memory
                  ELSE current_session[1]
           started == IF new THEN create_session(sessions, context_memory, sid)
                      ELSE [sessions |-> sessions, context_memory |-> context_memory]
           text == strip(question)
           got == QueryCache_get(cache, cache_key(sid, lower(text)))
       IN /\ text # <<>>
          /\ lower(text) \notin Commands
          /\ ~Truthy(got.value)
          /\ sessions' = started.sessions
          /\ context_memory' = started.context_memory
          /\ cache' = got.cache
          /\ current_session' = <<sid>>
          /\ user_query' = resolve_references(started.context_memory, sid, text)
    /\ pc' = "invoke"
    /\ UNCHANGED <<sqlVars, callVars, question, payload, asks, answered, graph, loop, event, result, excText,
                   graphVars, maxsize, calls, cacheBefore, max_history, added>>

\* process_query after the graph returned: the response is built, the two messages
\* are added, the context is updated and the payload is cached and returned
ProcessReturn ==
    /\ pc = "returned"
    /\ \E show_sql \in BOOLEAN :
          LET sid == current_session[1]
              text == strip(question)
              reply == response_of(result, show_sql)
              s1 == add_message(sessions, max_history, sid,
                                [role |-> "user", content |-> text,
                                 timestamp |-> added[sid] + 1,
                                 metadata |-> EmptyDict])
              s2 == add_message(s1, max_history, sid,
                                [role |-> "assistant", content |-> reply,
                                 timestamp |-> added[sid] + 2,
                                 metadata |->
                                   [sql |-> dict_get(result, "generated_sql", None),
                                    execution_time |->
                                        dict_get(result, "execution_time", None),
                                    row_count |-> dict_get(result, "row_count", -1)]])
              value == [formatted_response |-> reply, state |-> result, exit |-> FALSE]
              stored == QueryCache_set(cache, maxsize, cache_key(sid, lower(text)), value)
          IN /\ sessions' = s2
             /\ added' = [added EXCEPT ![sid] = @ + 2]
             /\ context_memory' = update_context(context_memory, sid, entities_tables(result),
                                                 entities_columns(result), intent_action(result))
             /\ cache' = stored.cache
             /\ payload' = value
    /\ pc' = "answered"
    /\ UNCHANGED <<sqlVars, callVars, question, current_session, asks, answered, graph, loop, event,
                   user_query, result, excText, graphVars, maxsize, calls, cacheBefore,
                   max_history>>

\* The sixth node, format, has no action: should_continue_after_execution answers
\* "format" only when query_results is set, and ExecuteSQLNode never sets it, because
\* its call of execute always raises (FormatNeverEntered).
NodeStep == Understand \/ Generate \/ Validate \/ Refine \/ Execute

Next ==
    \/ InvokeStart
    \/ InvokeSchemaError
    \/ Understand
    \/ Generate
    \/ Validate
    \/ Refine
    \/ Execute
    \/ GraphRaise
    \/ InvokeReturn
    \/ ProcessStart
    \/ ProcessReturn

Spec == Init /\ [][Next]_vars

\* the graph library runs the next node whenever there is one, and invoke returns
\* once the graph has ended
FairSpec ==
    /\ Init /\ [][Next]_vars
    /\ WF_vars(InvokeStart)
    /\ WF_vars(NodeStep)
    /\ WF_vars(InvokeReturn)

(***************************************************************************)
(* Claims about the workflow                                               *)
(***************************************************************************)
\* the graph never arrives at the format node
FormatNeverEntered == node # "format" /\ route # "format"

GraphStarted == pc \in {"graph", "returned"} /\ state # NoState
AllGenerateCallsFailed == genCalls > 0 /\ genFails = genCalls

\* C1: in a run where generate_sql fails on every call, the Generate node is called
\* exactly max_attempts (3) times, never more, and the workflow then ends with
\* status FAILED and an error_message that is not absent.
C1_GenerateGivesUpAtMax ==
    (GraphStarted /\ AllGenerateCallsFailed) =>
        /\ genCalls <= state.max_attempts
        /\ (node = END =>
               /\ genCalls = state.max_attempts
               /\ state.status = FAILED
               /\ state.error_message # None)

\* C2: once the graph runs, it reaches END after finitely many node executions by
\* its own routing; the graph library stopping the run is the only other way out.
C2_GraphReachesEnd == (pc = "graph") ~> (node = END \/ pc = "returned")

\* C3: the calls of generate_sql plus the calls of refine_query in one run, failed
\* calls included, never exceed max_attempts (3).
C3_CallsWithinMax == GraphStarted => genCalls + refineCalls <= state.max_attempts

\* the checks of the Validate node, computed on the SQL the state holds now
PassesValidation(st) ==
    /\ Truthy(st.generated_sql)
    /\ ~validate(st.generated_sql).raised
    /\ validate_against_schema(st.generated_sql, st) = <<>>

\* C4: Execute is entered only straight from a Validate that judged the SQL now in
\* the state valid, the SQL handed to the executor passes the validator's and the
\* schema checks, and after Refine the next node is always Validate.
C4_ExecuteOnlyValidated ==
    /\ (pc = "graph" /\ node = "execute") =>
          (prev = "validate" /\ state.is_valid /\ PassesValidation(state))
    /\ (GraphStarted /\ prev = "execute") => (state.is_valid /\ PassesValidation(state))
    /\ (pc = "graph" /\ prev = "refine") => node = "validate"
\* Execute is about to run SQL that came out of Refine
C4_Witness == pc = "graph" /\ node = "execute" /\ refineCalls > 0 /\ prev = "validate"

HappyPrefix == <<"understand", "generate", "validate", "execute">>
DatabaseFailed == execOut.dbCalled /\ ~execOut.success

\* C5: a run whose generated SQL the Validate node accepts at once and in which the
\* database does not fail visits Understand, Generate, Validate, Execute, Format in
\* this order and returns status SUCCESS, query_results the rows, execution_error
\* absent and a formatted_response that is not absent.
C5_SuccessPath ==
    /\ (GraphStarted /\ visited = HappyPrefix /\ ~DatabaseFailed) => node = "format"
    /\ (/\ pc = "returned" /\ excText = None
        /\ Len(visited) >= 4 /\ SubSeq(visited, 1, 4) = HappyPrefix
        /\ ~DatabaseFailed)
          => /\ visited = Append(HappyPrefix, "format")
             /\ result.status = SUCCESS
             /\ result.query_results = execOut.rows
             /\ result.execution_error = None
             /\ result.formatted_response # None

\* C6: when the graph ends through a terminate-with-error branch, the state has
\* status FAILED and an error_message that is not absent.
C6_ErrorEndIsFailed ==
    (GraphStarted /\ node = END /\ route = "end_with_error") =>
        (state.status = FAILED /\ state.error_message # None)

\* C7: invoke never raises; when an exception (schema fetch, state building or the
\* graph run) reaches it, it returns status 'failed', error_message the exception
\* text and a formatted_response that embeds that text.
C7_InvokeNeverRaises ==
    /\ pc # "raised"
    /\ (pc = "returned" /\ excText # None) =>
          /\ result.status = "failed"
          /\ result.error_message = excText
          /\ Contains(result.formatted_response, excText)
\* an exception out of the running graph was turned into a result
C7_Witness == pc = "returned" /\ excText \in GraphErrors /\ prev = "validate"

(***************************************************************************)
(* Claims about the validator, stated over the statement text itself.      *)
(***************************************************************************)
\* The fourteen statement keywords of the denylist (the first fourteen entries).
ClaimKeywords == {DANGEROUS_KEYWORDS[k] : k \in 1..14}

\* `keyword` stands in `s` at place i in some letter case
OccursAt(keyword, s, i) ==
    /\ i + Len(keyword) - 1 <= Len(s)
    /\ \A j \in 1..Len(keyword) : UpperChar(s[i + j - 1]) = keyword[j]
\* ... as a whole word: no identifier character on either side
OccursAsWord(keyword, s) ==
    \E i \in 1..Len(s) :
        /\ OccursAt(keyword, s, i)
        /\ (i = 1 \/ ~IsWord(s[i - 1]))
        /\ (i + Len(keyword) - 1 = Len(s) \/ ~IsWord(s[i + Len(keyword)]))
\* ... only inside longer identifiers
OccursOnlyInside(keyword, s) ==
    /\ \E i \in 1..Len(s) : OccursAt(keyword, s, i)
    /\ ~OccursAsWord(keyword, s)

Accepted == vDone /\ ~vOut.raised /\ vOut.value = TRUE
Rejected == vDone /\ vOut.raised

\* C9: validate rejects every statement holding a denylisted keyword as a whole word,
\* in any letter case and at any place; a SELECT statement that holds such keywords
\* only inside longer identifiers (and trips no other rule) is accepted.
C9_DenylistWholeWord ==
    vDone =>
        /\ (\E kw \in ClaimKeywords : OccursAsWord(kw, sqlIn)) => Rejected
        /\ ( /\ startswith(upper(strip(sqlIn)), kwSELECT)
             /\ \E kw \in ClaimKeywords : OccursOnlyInside(kw, sqlIn)
             /\ \A kw \in ClaimKeywords : ~OccursAsWord(kw, sqlIn)
             /\ ~check_sql_injection(strip(sqlIn))
             /\ ~has_multiple_statements(strip(sqlIn)) ) => Accepted

\* C9 witness: a mixed-case keyword, as a whole word after a SELECT, was rejected.
C9_Witness ==
    /\ Rejected
    /\ startswith(upper(strip(sqlIn)), kwSELECT)
    /\ OccursAsWord(DANGEROUS_KEYWORDS[2], sqlIn)
    /\ ~Contains(sqlIn, DANGEROUS_KEYWORDS[2])

\* trimmed and case-folded, the text starts with select, or starts with with and
\* holds a select after it
SelectShaped(s) ==
    LET f == lower(strip(s))
    IN \/ startswith(f, lower(kwSELECT))
       \/ /\ startswith(f, lower(kwWITH))
          /\ \E i \in (Len(kwWITH) + 1)..Len(f) : StartsAt(f, lower(kwSELECT), i)

FreeOfDenylistAndInjection(s) ==
    /\ strip(s) # <<>>
    /\ \A k \in 1..Len(DANGEROUS_KEYWORDS) : ~OccursAsWord(upper(DANGEROUS_KEYWORDS[k]), s)
    /\ ~check_sql_injection(strip(s))

\* C10: a non-empty statement free of denylisted words and injection patterns is
\* accepted only if it is SELECT-shaped, and is otherwise rejected with the reason
\* 'Only SELECT queries are allowed'.
C10_SelectOnly ==
    (vDone /\ FreeOfDenylistAndInjection(sqlIn)) =>
        /\ Accepted => SelectShaped(sqlIn)
        /\ ~SelectShaped(sqlIn) => (Rejected /\ vOut.msg = MsgOnlySelect)

\* C10 witness: a WITH statement holding a SELECT was accepted.
C10_Witness ==
    /\ Accepted
    /\ startswith(lower(strip(sqlIn)), lower(kwWITH))

\* C8: execute never raises; SQL the validator rejects and a failing database call
\* both give a payload with success = false and an error text, and the database is
\* not called for rejected SQL.
C8_ExecuteNeverRaises ==
    xDone =>
        /\ ~xOut.raised
        /\ validate(sqlIn).raised => (~xOut.success /\ Truthy(xOut.error) /\ ~xOut.dbCalled)

(***************************************************************************)
(* QueryValidator.get_query_complexity (agent/validator.py:164-210) called *)
(* on one text: words separated by single spaces.                          *)
(***************************************************************************)
MaxTerms == 3

ComplexityTerms ==
    {<<"S","E","L","E","C","T">>, <<"s","e","l","e","c","t">>, <<"J","O","I","N">>, <<"C","O","U","N","T">>, <<"m","a","x">>,
     <<"G","R","O","U","P"," ","B","Y">>, <<"H","A","V","I","N","G">>, <<"W","I","T","H">>, <<"t">>}

RECURSIVE JoinWords(_)
JoinWords(ws) ==
    IF ws = <<>> THEN <<>>
    ELSE IF Len(ws) = 1 THEN ws[1]
    ELSE ws[1] \o <<" ">> \o JoinWords(Tail(ws))

ComplexityInputs ==
    {JoinWords(ws) : ws \in UNION {[1..n -> ComplexityTerms] : n \in 0..MaxTerms}}

InitComplexity ==
    /\ arg \in ComplexityInputs
    /\ done = FALSE /\ out = None
    /\ SqlIdle /\ FlowIdle /\ CacheIdle /\ ConvIdle

\* validator.get_query_complexity(arg)
DoComplexity ==
    /\ ~done
    /\ done' = TRUE
    /\ out' = get_query_complexity(arg)
    /\ UNCHANGED <<arg, sqlVars, flowVars, cacheVars, convVars>>

SpecComplexity == InitComplexity /\ [][DoComplexity]_vars

\* the places of a text where a word starts
Occurrences(text, word) ==
    Cardinality({i \in 1..Len(text) : StartsAt(text, word, i)})

\* the score as the documentation computes it, on the upper-cased text
DocumentedScore(text) ==
    LET u == upper(text)
    IN 2 * Occurrences(u, <<"J","O","I","N">>)
       + 3 * (Occurrences(u, <<"S","E","L","E","C","T">>) - 1)
       + Occurrences(u, <<"C","O","U","N","T">>) + Occurrences(u, <<"S","U","M">>) + Occurrences(u, <<"A","V","G">>)
       + Occurrences(u, <<"M","I","N">>) + Occurrences(u, <<"M","A","X">>)
       + (IF Occurrences(u, <<"G","R","O","U","P"," ","B","Y">>) > 0 THEN 2 ELSE 0)
       + (IF Occurrences(u, <<"H","A","V","I","N","G">>) > 0 THEN 2 ELSE 0)
       + (IF StartsAt(u, <<"W","I","T","H">>, 1) THEN 3 ELSE 0)

\* C11: get_query_complexity returns the label of the documented score: 'simple'
\* for 0, 'moderate' for 1..5, 'complex' above 5; 'moderate' is returned for no
\* score outside 1..5.
C11_ComplexityLabel ==
    done =>
        LET score == DocumentedScore(arg)
        IN /\ (score = 0 => out = "simple")
           /\ (score \in 1..5 => out = "moderate")
           /\ (score > 5 => out = "complex")
           /\ (out = "moderate" => score \in 1..5)

(***************************************************************************)
(* A QueryCache under any sequence of get, set and clear calls             *)
(***************************************************************************)
\* a QueryCache(maxsize) was constructed; both call sites pass 50, the model
\* capacities from 1 up
InitCache ==
    /\ maxsize \in 1..MaxSize
    /\ cache = <<>> /\ calls = <<>> /\ cacheBefore = <<>>
    /\ arg = None /\ done = FALSE /\ out = None
    /\ SqlIdle /\ FlowIdle /\ ConvIdle

CacheGet ==
    /\ Len(calls) < MaxOps
    /\ \E key \in CacheKeys :
          LET r == QueryCache_get(cache, key)
          IN /\ cache' = r.cache
             /\ out' = r.value
             /\ calls' = Append(calls, [fn |-> "get", key |-> key, value |-> r.value,
                                        hit |-> key \in KeysOf(cache)])
    /\ cacheBefore' = cache
    /\ done' = TRUE
    /\ UNCHANGED <<arg, maxsize, sqlVars, flowVars, convVars>>

CacheSet ==
    /\ Len(calls) < MaxOps
    /\ \E key \in CacheKeys, value \in CacheValues :
          LET r == QueryCache_set(cache, maxsize, key, value)
          IN /\ cache' = r.cache
             /\ out' = IF r.raised THEN r.msg ELSE None
             /\ calls' = Append(calls, [fn |-> "set", key |-> key, value |-> value,
                                        hit |-> key \in KeysOf(cache)])
    /\ cacheBefore' = cache
    /\ done' = TRUE
    /\ UNCHANGED <<arg, maxsize, sqlVars, flowVars, convVars>>

CacheClear ==
    /\ Len(calls) < MaxOps
    /\ cache' = QueryCache_clear(cache)
    /\ out' = None
    /\ calls' = Append(calls, [fn |-> "clear", key |-> 0, value |-> None, hit |-> FALSE])
    /\ cacheBefore' = cache
    /\ done' = TRUE
    /\ UNCHANGED <<arg, maxsize, sqlVars, flowVars, convVars>>

NextCache == CacheGet \/ CacheSet \/ CacheClear

SpecCache == InitCache /\ [][NextCache]_vars

\* the last call made on the cache
LastCall == calls[Len(calls)]
\* a use of a key: a set, or a get that found it
IsUse(call, key) ==
    /\ call.key = key
    /\ call.fn = "set" \/ (call.fn = "get" /\ call.hit)
\* the place, among the calls before the last one, of the most recent use of a key
LastUseBefore(key) ==
    CHOOSE i \in 1..(Len(calls) - 1) :
        /\ IsUse(calls[i], key)
        /\ \A j \in (i + 1)..(Len(calls) - 1) : ~IsUse(calls[j], key)
\* the entry whose most recent use is oldest
LeastRecentlyUsed ==
    CHOOSE key \in KeysOf(cacheBefore) :
        \A other \in KeysOf(cacheBefore) : LastUseBefore(key) <= LastUseBefore(other)

EvictingSet ==
    /\ calls # <<>>
    /\ LastCall.fn = "set"
    /\ LastCall.key \notin KeysOf(cacheBefore)
    /\ Len(cacheBefore) = maxsize

\* C12: setting a key that is not present while the cache holds maxsize entries
\* removes exactly the entry whose most recent use (successful get, or set) is the
\* oldest, and keeps every other entry with its value.
C12_EvictsLeastRecentlyUsed ==
    EvictingSet =>
        /\ KeysOf(cache) = (KeysOf(cacheBefore) \ {LeastRecentlyUsed}) \cup {LastCall.key}
        /\ \A key \in KeysOf(cacheBefore) \ {LeastRecentlyUsed} :
              ValueOf(cache, key) = ValueOf(cacheBefore, key)
        /\ ValueOf(cache, LastCall.key) = LastCall.value

\* an eviction that a get decided: the entry inserted first was read afterwards and
\* is still there, another entry went
C12_Witness ==
    /\ EvictingSet
    /\ calls[1].fn = "set"
    /\ \A i \in 2..Len(calls) :
          /\ calls[i].fn # "clear"
          /\ calls[i].fn = "set" => calls[i].key # calls[1].key
    /\ \E i \in DOMAIN calls :
          calls[i].fn = "get" /\ calls[i].hit /\ calls[i].key = calls[1].key
    /\ calls[1].key \in KeysOf(cache)
    /\ LeastRecentlyUsed \notin KeysOf(cache)

SetOfPresentKey ==
    /\ calls # <<>>
    /\ LastCall.fn = "set"
    /\ LastCall.key \in KeysOf(cacheBefore)
GetOfAbsentKey ==
    /\ calls # <<>>
    /\ LastCall.fn = "get"
    /\ LastCall.key \notin KeysOf(cacheBefore)

\* C13: the cache never holds more than maxsize entries; a set of a key already
\* present replaces its value and makes it the most recently used entry without
\* evicting anything; a get of an absent key changes nothing and returns None.
C13_CacheWithinCapacity ==
    /\ Len(cache) <= maxsize
    /\ Cardinality(KeysOf(cache)) = Len(cache)
    /\ SetOfPresentKey =>
          /\ KeysOf(cache) = KeysOf(cacheBefore)
          /\ ValueOf(cache, LastCall.key) = LastCall.value
          /\ \A key \in KeysOf(cacheBefore) \ {LastCall.key} :
                ValueOf(cache, key) = ValueOf(cacheBefore, key)
          /\ cache[Len(cache)].key = LastCall.key
    /\ GetOfAbsentKey => cache = cacheBefore /\ out = None

\* a full cache of two entries whose older entry was set again with another value
C13_Witness ==
    /\ SetOfPresentKey
    /\ Len(cacheBefore) = maxsize /\ maxsize >= 2
    /\ cacheBefore[1].key = LastCall.key
    /\ cacheBefore[1].value # LastCall.value
    /\ Len(cache) = maxsize

(***************************************************************************)
(* A ConversationManager under any sequence of calls                       *)
(***************************************************************************)
\* ConversationManager(max_history): the application passes 10, the model small
\* positive numbers
InitConv ==
    /\ sessions = EmptyDict /\ context_memory = EmptyDict
    /\ max_history \in 1..MaxHistory
    /\ added = [s \in SessionIds |-> 0]
    /\ arg = None /\ done = FALSE /\ out = None
    /\ SqlIdle /\ FlowIdle /\ CacheIdle

\* create_session: a new identifier (uuid4), an empty history and a fresh context
CreateSession ==
    /\ \E session_id \in SessionIds \ (DOMAIN sessions \cup DOMAIN context_memory) :
          /\ sessions' = create_session(sessions, context_memory, session_id).sessions
          /\ context_memory' =
                create_session(sessions, context_memory, session_id).context_memory
          /\ added' = [added EXCEPT ![session_id] = 0]
          /\ arg' = [fn |-> "create_session", session_id |-> session_id]
          /\ out' = <<session_id>>
    /\ done' = TRUE
    /\ UNCHANGED <<max_history, sqlVars, flowVars, cacheVars>>

\* add_message(session_id, role, content); the message carries the time of the call
AddMessage ==
    /\ \E session_id \in SessionIds :
          /\ added[session_id] < MaxMsgs
          /\ sessions' = add_message(sessions, max_history, session_id,
                                     [role |-> RoleOf(added[session_id]),
                                      timestamp |-> added[session_id] + 1])
          /\ added' = [added EXCEPT ![session_id] = @ + 1]
          /\ arg' = [fn |-> "add_message", session_id |-> session_id]
    /\ out' = None
    /\ done' = TRUE
    /\ UNCHANGED <<context_memory, max_history, sqlVars, flowVars, cacheVars>>

UpdateContext ==
    /\ \E session_id \in SessionIds, tables \in TableLists, columns \in ColumnLists,
          intent \in Intents :
          /\ context_memory' = update_context(context_memory, session_id, tables, columns, intent)
          /\ arg' = [fn |-> "update_context", session_id |-> session_id,
                     tables |-> tables, columns |-> columns, intent |-> intent]
    /\ out' = None
    /\ done' = TRUE
    /\ UNCHANGED <<sessions, max_history, added, sqlVars, flowVars, cacheVars>>

ClearSession ==
    /\ \E session_id \in SessionIds :
          LET r == clear_session(sessions, context_memory, session_id)
          IN /\ sessions' = r.sessions
             /\ context_memory' = r.context_memory
             /\ added' = [added EXCEPT ![session_id] = 0]
             /\ arg' = [fn |-> "clear_session", session_id |-> session_id,
                        existed |-> session_exists(sessions, session_id),
                        messages |-> Len(get_history(sessions, session_id)),
                        tables |-> dict_get(get_context(context_memory, session_id),
                                            "last_tables", <<>>)]
    /\ out' = None
    /\ done' = TRUE
    /\ UNCHANGED <<max_history, sqlVars, flowVars, cacheVars>>

NextConv == CreateSession \/ AddMessage \/ UpdateContext \/ ClearSession

SpecConv == InitConv /\ [][NextConv]_vars

Min(a, b) == IF a <= b THEN a ELSE b

\* C14: after n messages were added to a session (since it began or was cleared),
\* its history is exactly the most recent min(n, 2*max_history) of them, in the
\* order they were added; the history is never longer than 2*max_history.
C14_HistoryIsMostRecent ==
    \A session_id \in DOMAIN sessions :
        LET history == get_history(sessions, session_id)
            n == added[session_id]
        IN /\ Len(history) = Min(n, 2 * max_history)
           /\ Len(history) <= 2 * max_history
           /\ \A i \in DOMAIN history : history[i].timestamp = n - Len(history) + i

\* more messages were added than the history keeps, and the oldest is gone
C14_Witness ==
    \E session_id \in DOMAIN sessions :
        /\ added[session_id] > 2 * max_history
        /\ Len(get_history(sessions, session_id)) = 2 * max_history
        /\ get_history(sessions, session_id)[1].timestamp > 1

MissingKey == <<"<missing>">>
\* a field of a session's context memory, Missing when the dictionary has no such key
Field(ctx, session_id, key) == dict_get(get_context(ctx, session_id), key, MissingKey)
\* an argument that was passed (its default is None)
Supplied(argument) == argument # None

\* the field is overwritten with a supplied argument and untouched otherwise
Overwrites(key, argument) ==
    LET before == Field(context_memory, arg'.session_id, key)
        after == Field(context_memory', arg'.session_id, key)
    IN IF Supplied(argument) THEN after = argument ELSE after = before

\* C16: update_context overwrites exactly the fields whose argument is supplied,
\* storing the supplied value whatever it is (an empty list included), and leaves the
\* fields whose argument is absent, and every other session, unchanged.
C16_UpdateOverwritesSupplied ==
    [][(done' /\ arg'.fn = "update_context") =>
          /\ Overwrites("last_tables", arg'.tables)
          /\ Overwrites("last_columns", arg'.columns)
          /\ Overwrites("last_intent", arg'.intent)
          /\ Field(context_memory', arg'.session_id, "created_at")
                = Field(context_memory, arg'.session_id, "created_at")
          /\ \A other \in SessionIds \ {arg'.session_id} :
                /\ (other \in DOMAIN context_memory') = (other \in DOMAIN context_memory)
                /\ get_context(context_memory', other) = get_context(context_memory, other)
          /\ sessions' = sessions]_vars

\* C17: after clear_session(s) on an existing session s the history of s is empty,
\* its context memory remembers no table, no column and no intent, s still exists
\* and the set of sessions is unchanged; clear_session on an unknown identifier
\* creates no session.
C17_ClearKeepsSession ==
    [][(done' /\ arg'.fn = "clear_session") =>
          /\ get_all_sessions(sessions') = get_all_sessions(sessions)
          /\ session_exists(sessions, arg'.session_id) =>
                /\ session_exists(sessions', arg'.session_id)
                /\ get_history(sessions', arg'.session_id) = <<>>
                /\ dict_get(get_context(context_memory', arg'.session_id), "last_tables", <<>>) = <<>>
                /\ dict_get(get_context(context_memory', arg'.session_id), "last_columns", <<>>) = <<>>
                /\ dict_get(get_context(context_memory', arg'.session_id), "last_intent", None) = None
          /\ \A other \in SessionIds \ {arg'.session_id} :
                /\ get_history(sessions', other) = get_history(sessions, other)
                /\ get_context(context_memory', other) = get_context(context_memory, other)]_vars

\* a session that held messages and a last-known table was cleared and is still there
C17_Witness ==
    /\ done /\ arg.fn = "clear_session"
    /\ arg.existed /\ arg.messages > 0 /\ arg.tables # <<>>
    /\ session_exists(sessions, arg.session_id)
    /\ get_history(sessions, arg.session_id) = <<>>
    /\ get_context(context_memory, arg.session_id).last_tables = <<>>

(***************************************************************************)
(* ConversationManager.resolve_references                                  *)
(* (agent/conversation_manager.py:152-177) called once on a manager whose  *)
(* context memory knows session "s1" or no session.                        *)
(***************************************************************************)
MaxWords == 2

ResolveWords ==
    {<<"s","h","o","w">>, <<"t","h","e","m">>, <<"t","h","o","s","e">>, <<"t","h","e","s","e">>, <<"i","t">>, <<"w","i","t","h">>, <<"T","h","e","m">>, <<"I","T">>}
ResolveQueries ==
    {JoinWords(ws) : ws \in UNION {[1..n -> ResolveWords] : n \in 0..MaxWords}}
\* what the context memory may hold for the session
ResolveContexts ==
    {EmptyDict,
     [s1 |-> EmptyDict],
     [s1 |-> FreshContext],
     [s1 |-> [FreshContext EXCEPT !.last_tables = <<"products">>]],
     [s1 |-> [FreshContext EXCEPT !.last_tables = <<"items", "products">>]]}

InitResolve ==
    /\ context_memory \in ResolveContexts
    /\ sessions = [s \in DOMAIN context_memory |-> <<>>]
    /\ max_history = MaxHistory
    /\ added = [s \in SessionIds |-> 0]
    /\ arg \in {[fn |-> "resolve_references", session_id |-> "s1", query |-> q] :
                   q \in ResolveQueries}
    /\ done = FALSE /\ out = None
    /\ SqlIdle /\ FlowIdle /\ CacheIdle

\* conversation_manager.resolve_references(session_id, query)
DoResolve ==
    /\ ~done
    /\ done' = TRUE
    /\ out' = resolve_references(context_memory, arg.session_id, arg.query)
    /\ UNCHANGED <<arg, convVars, sqlVars, flowVars, cacheVars>>

SpecResolve == InitResolve /\ [][DoResolve]_vars

\* the session has a last-known table
HasLastTable(ctx, session_id) ==
    /\ session_id \in DOMAIN ctx
    /\ "last_tables" \in DOMAIN ctx[session_id]
    /\ ctx[session_id].last_tables # <<>>

\* the query with each literal 'them', 'those', 'these' and 'it' of the original
\* text replaced by the table, every other character kept
RECURSIVE ReplacedReferences(_, _)
ReplacedReferences(query, table) ==
    IF query = <<>> THEN <<>>
    ELSE IF \E r \in DOMAIN PluralReferences : StartsAt(query, PluralReferences[r], 1)
    THEN LET r == CHOOSE r \in DOMAIN PluralReferences : StartsAt(query, PluralReferences[r], 1)
         IN table \o ReplacedReferences(
                        SubSeq(query, Len(PluralReferences[r]) + 1, Len(query)), table)
    ELSE IF StartsAt(query, <<"i","t">>, 1)
    THEN table \o ReplacedReferences(SubSeq(query, 3, Len(query)), table)
    ELSE <<Head(query)>> \o ReplacedReferences(Tail(query), table)

\* C15: resolve_references returns the query unchanged when the session has no
\* last-known table; with a last-known table T it returns the query with every
\* literal 'them', 'those', 'these' and, independently, every literal 'it' of the
\* original text replaced by T, and nothing else changed.
C15_ResolveReplacesReferences ==
    done =>
        IF HasLastTable(context_memory, arg.session_id)
        THEN out = ReplacedReferences(arg.query,
                       NameText[context_memory[arg.session_id].last_tables[1]])
        ELSE out = arg.query

(***************************************************************************)
(* Claims about process_query                                              *)
(***************************************************************************)
\* the workflow run ended without a formatted answer: a routing function ended it
\* with an error, or invoke caught an exception
RunEndedWithError ==
    /\ pc = "answered"
    /\ route = "end_with_error" \/ excText # None

\* the error texts the final state holds
ErrorTexts(final_state) ==
    {text \in {dict_get(final_state, "error_message", None),
               dict_get(final_state, "execution_error", None)} : Truthy(text)}
        \cup Range(dict_get(final_state, "validation_errors", <<>>))

\* C18: when the workflow run ends without a formatted answer, the response that
\* process_query returns contains the error text and the hint to rephrase the
\* question.
C18_ErrorResponseHasHint ==
    RunEndedWithError =>
        /\ RephraseHint \in Range(payload.formatted_response)
        /\ \E text \in ErrorTexts(result) : Contains(payload.formatted_response, text)

(***************************************************************************)
(* DatabaseConnection.execute_query called once                            *)
(***************************************************************************)
MaxRows == 4
MaxLimit == 3

\* rows the driver may fetch, and the exceptions it may raise
DriverRows == {<<1, "x">>, <<2, "y">>}
DriverAnswers ==
    {[raised |-> FALSE, msg |-> <<>>, columns |-> ResultColumns, rows |-> rows] :
        rows \in UNION {[1..n -> DriverRows] : n \in 0..MaxRows}}
      \cup {[raised |-> TRUE, msg |-> m, columns |-> <<>>, rows |-> <<>>] :
               m \in {<<"connection refused">>, <<"syntax error">>}}

\* settings.max_query_results is 100 unless the environment sets it; the model
\* takes small limits, zero included
InitDb ==
    /\ arg \in {[fn |-> "execute_query", driver |-> d, max_query_results |-> n] :
                   d \in DriverAnswers, n \in 0..MaxLimit}
    /\ done = FALSE /\ out = None
    /\ SqlIdle /\ FlowIdle /\ CacheIdle /\ ConvIdle

\* db_connection.execute_query(query)
DoQuery ==
    /\ ~done
    /\ done' = TRUE
    /\ out' = execute_query(arg.driver, arg.max_query_results)
    /\ UNCHANGED <<arg, sqlVars, flowVars, cacheVars, convVars>>

SpecDb == InitDb /\ [][DoQuery]_vars

\* the returned row holds the values of the fetched row, column by column
SameRow(returned, fetched) ==
    \A i \in DOMAIN ResultColumns : returned[ResultColumns[i]] = fetched[i]

\* C19: execute_query returns the first max_query_results rows, in order, when the
\* query yields more, and all rows otherwise, so never more than max_query_results;
\* a failure of the driver is raised to the caller and never becomes an empty result.
C19_RowsWithinLimit ==
    done =>
        IF arg.driver.raised
        THEN out.raised /\ Contains(out.msg, arg.driver.msg)
        ELSE /\ ~out.raised
             /\ Len(out.value) <= arg.max_query_results
             /\ Len(out.value) = Min(Len(arg.driver.rows), arg.max_query_results)
             /\ \A i \in DOMAIN out.value : SameRow(out.value[i], arg.driver.rows[i])

\* more rows than the limit were fetched and the first ones came back
C19_Witness ==
    /\ done /\ ~arg.driver.raised
    /\ Len(arg.driver.rows) > arg.max_query_results
    /\ arg.max_query_results >= 2
    /\ ~out.raised /\ Len(out.value) = arg.max_query_results
    /\ arg.driver.rows[1] # arg.driver.rows[Len(arg.driver.rows)]

(***************************************************************************)
(* The routing function after Validate (agent/edges.py:9-37) called on one *)
(* workflow state, of which it reads five fields.                          *)
(***************************************************************************)
MaxAttempt == 4

RoutedStates ==
    [is_valid : BOOLEAN,
     generation_attempt : 0..MaxAttempt,
     max_attempts : {1, 3},
     validation_errors : {<<>>, <<MsgOnlySelect>>},
     validation_warnings : {<<>>, <<<<"Query should use COUNT() for counting">>>>}]

InitRoute ==
    /\ arg \in RoutedStates
    /\ done = FALSE /\ out = None
    /\ SqlIdle /\ FlowIdle /\ CacheIdle /\ ConvIdle

\* should_refine_sql(arg) and the node its label is mapped to
DoRoute ==
    /\ ~done
    /\ done' = TRUE
    /\ out' = <<AfterValidate(should_refine_sql(arg))>>
    /\ UNCHANGED <<arg, sqlVars, flowVars, cacheVars, convVars>>

SpecRoute == InitRoute /\ [][DoRoute]_vars

\* C20: after Validate the graph goes to Execute if is_valid; otherwise it ends with
\* an error if generation_attempt >= max_attempts; otherwise to Refine if
\* validation_errors is not empty; otherwise to Execute if validation_warnings is
\* not empty; otherwise it ends with an error.
C20_RouteAfterValidate ==
    done =>
        out = <<IF arg.is_valid THEN "execute"
                ELSE IF arg.generation_attempt >= arg.max_attempts THEN END
                ELSE IF Len(arg.validation_errors) > 0 THEN "refine"
                ELSE IF Len(arg.validation_warnings) > 0 THEN "execute"
                ELSE END>>

\* an invalid state with errors and attempts used up: the run ends, it is not refined
C20_Witness ==
    /\ done
    /\ ~arg.is_valid
    /\ arg.generation_attempt >= arg.max_attempts
    /\ arg.validation_errors # <<>>
    /\ out = <<END>>

(***************************************************************************)
(* The three routing functions (agent/edges.py:9-82) with the path maps of *)
(* the graph (agent/graph.py:97-130), each called on one workflow state.   *)
(***************************************************************************)
Statuses ==
    {INITIALIZED, UNDERSTANDING, GENERATING, VALIDATING, REFINING, EXECUTING,
     FORMATTING, SUCCESS, FAILED}

\* the fields the routing functions may read; the nodes store a SQL text or None,
\* a list of rows or None, an error text or None
EdgeStates ==
    [generated_sql : {None, <<"S","E","L","E","C","T"," ","a"," ","F","R","O","M"," ","t">>},
     generation_attempt : 0..MaxAttempt,
     max_attempts : {1, 3},
     is_valid : BOOLEAN,
     validation_errors : {<<>>, <<MsgOnlySelect>>},
     validation_warnings : {<<>>, <<<<"Query should use COUNT() for counting">>>>},
     query_results : {None, <<>>, <<Row1>>},
     execution_error : {None, <<"Query execution error: ", "syntax error">>},
     status : Statuses]

InitEdges ==
    /\ arg \in EdgeStates
    /\ done = FALSE /\ out = None
    /\ SqlIdle /\ FlowIdle /\ CacheIdle /\ ConvIdle

\* the node the graph runs after the node named `after`, for the state st
NextNode(after, st) ==
    CASE after = "generate" -> AfterGenerate(should_continue_after_generation(st))
      [] after = "validate" -> AfterValidate(should_refine_sql(st))
      [] after = "execute" -> AfterExecute(should_continue_after_execution(st))

RouteFrom(after) ==
    /\ ~done
    /\ done' = TRUE
    /\ out' = [after |-> after, next |-> NextNode(after, arg)]
    /\ UNCHANGED <<arg, sqlVars, flowVars, cacheVars, convVars>>

RouteAfterGeneration == RouteFrom("generate")
RouteAfterValidation == RouteFrom("validate")
RouteAfterExecution == RouteFrom("execute")

NextEdges == RouteAfterGeneration \/ RouteAfterValidation \/ RouteAfterExecution

SpecEdges == InitEdges /\ [][NextEdges]_vars

\* C21: after Execute the graph goes to Format if query_results is not absent (an
\* empty list included); otherwise to Refine if there is an execution error and
\* generation_attempt < max_attempts; otherwise it ends with an error.
C21_RouteAfterExecute ==
    (done /\ out.after = "execute") =>
        out.next = IF arg.query_results # None THEN "format"
                   ELSE IF arg.execution_error # None
                           /\ arg.generation_attempt < arg.max_attempts THEN "refine"
                   ELSE END

\* a query that succeeded with zero rows, routed to Format
C21_Witness ==
    /\ done /\ out.after = "execute"
    /\ arg.query_results = <<>>
    /\ out.next = "format"

\* C22: after Generate the graph goes to Validate if generated_sql is present;
\* otherwise to Generate again if generation_attempt < max_attempts; otherwise it
\* ends with an error.
C22_RouteAfterGenerate ==
    (done /\ out.after = "generate") =>
        out.next = IF arg.generated_sql # None THEN "validate"
                   ELSE IF arg.generation_attempt < arg.max_attempts THEN "generate"
                   ELSE END

\* no SQL and the attempts used up exactly: the run ends
C22_Witness ==
    /\ done /\ out.after = "generate"
    /\ arg.generated_sql = None
    /\ arg.generation_attempt = arg.max_attempts
    /\ out.next = END

\* C27: routing does not read status: the state that was routed and every state that
\* differs from it only in status have the same next node, after each of the three
\* nodes.
C27_RoutingIgnoresStatus ==
    done =>
        \A other \in Statuses :
            NextNode(out.after, [arg EXCEPT !.status = other]) = out.next

\* a failed execution that can still be refined, reached with a status other than
\* FAILED
C27_Witness ==
    /\ done /\ out.after = "execute"
    /\ arg.status = EXECUTING
    /\ arg.query_results = None /\ arg.execution_error # None
    /\ out.next = "refine"

(***************************************************************************)
(* Claims about the nodes of the workflow                                  *)
(***************************************************************************)
Attempt(st) == st.generation_attempt

\* C24: generation_attempt grows by exactly 1 in every successful run of the
\* Generate node and in every run of the Refine node; a failed Generate and the
\* Understand, Validate and Execute nodes leave it as it is.
C24_AttemptCounting ==
    [][/\ (Generate /\ state'.generated_sql # None) => Attempt(state') = Attempt(state) + 1
       /\ (Generate /\ state'.generated_sql = None) => Attempt(state') = Attempt(state)
       /\ Refine => Attempt(state') = Attempt(state) + 1
       /\ (Understand \/ Validate \/ Execute) => Attempt(state') = Attempt(state)]_vars

(***************************************************************************)
(* ValidateSQLNode (agent/nodes.py:197-293) called on one workflow state   *)
(* that holds a generated SQL, followed by the routing of its edge.        *)
(***************************************************************************)
SelectHeads == {<<"S","E","L","E","C","T"," ">>, <<"s","e","l","e","c","t"," ">>, <<"D","E","L","E","T","E"," ">>}
SelectColumns == {<<"a">>, <<"*">>, <<"a","_","f","r","o","m">>, <<"c","o","u","n","t","(","a",")">>}
FromTables == {<<"t">>, <<"T">>, <<"u">>}
SqlTails == {<<>>, <<" ","J","O","I","N"," ","t">>, <<" ","j","o","i","n"," ","u">>, <<" ","L","I","M","I","T"," ","3">>}
\* the SQL texts the generator may have stored
ValidateSqls ==
    {h \o col \o <<" ","F","R","O","M"," ">> \o tab \o tail :
        h \in SelectHeads, col \in SelectColumns, tab \in FromTables, tail \in SqlTails}

\* the state the Validate node receives: the question was understood and the SQL
\* generated
ValidateStates ==
    {GenerateSQLNode(
        UnderstandQueryNode(create_initial_state(q, TableNames, ColumnsDict, None)),
        TextResponse(sql)) : q \in Questions, sql \in ValidateSqls}

InitValidateNode ==
    /\ arg \in ValidateStates
    /\ done = FALSE /\ out = None
    /\ SqlIdle /\ FlowIdle /\ CacheIdle /\ ConvIdle

DoValidateNode ==
    /\ ~done
    /\ done' = TRUE
    /\ LET after == ValidateSQLNode(arg)
       IN out' = [state |-> after, next |-> AfterValidate(should_refine_sql(after))]
    /\ UNCHANGED <<arg, sqlVars, flowVars, cacheVars, convVars>>

SpecValidateNode == InitValidateNode /\ [][DoValidateNode]_vars

\* the keyword stands at place i of s as a whole word, in any letter case, followed
\* by whitespace and a name
KeywordThenNameAt(s, keyword, i) ==
    /\ WordThenRunAt(lower(s), keyword, "w", i)
    /\ WordBoundaryAt(s, i)
    /\ WordBoundaryAt(s, i + Len(keyword))
\* the tables named after the first FROM and after each JOIN
NamedTables(s) ==
    LET froms == {i \in 1..Len(s) : KeywordThenNameAt(s, <<"f","r","o","m">>, i)}
        joins == {i \in 1..Len(s) : KeywordThenNameAt(s, <<"j","o","i","n">>, i)}
    IN (IF froms = {} THEN {} ELSE {GroupAt(s, <<"f","r","o","m">>, "w", Least(froms))})
          \cup {GroupAt(s, <<"j","o","i","n">>, "w", i) : i \in joins}
SafetyCheckAccepts(s) == ~validate(s).raised
TablesAvailable(s, st) ==
    \A table \in NamedTables(s) :
        \E k \in 1..Len(st.available_tables) : lower(st.available_tables[k]) = lower(table)

\* C25: after the Validate node ran on a present SQL, is_valid is true exactly when
\* the safety check accepts the SQL and every table named after the first FROM and
\* after each JOIN is an available table (letter case ignored), whatever the intent
\* warnings are; and valid SQL with warnings goes to Execute.
C25_ValidIffSafeAndTablesKnown ==
    done =>
        /\ out.state.is_valid
             <=> (SafetyCheckAccepts(arg.generated_sql)
                    /\ TablesAvailable(arg.generated_sql, arg))
        /\ (out.state.is_valid /\ out.state.validation_warnings # <<>>)
             => out.next = "execute"

\* the pieces of `text` stand in `message`, one after the other
Mentions(message, text) ==
    \E i \in 1..(Len(message) - Len(text) + 1) :
        SubSeq(message, i, i + Len(text) - 1) = text

\* C26: when the Refine node runs after a failed execution, the feedback it gives to
\* refine_query and stores in refinement_feedback holds the execution error text.
C26_FeedbackHasExecutionError ==
    [][(Refine /\ prev = "execute" /\ state'.status = REFINING)
          => Mentions(state'.refinement_feedback, state.execution_error)]_vars

(***************************************************************************)
(* The agent (app.py:40-59) answering a sequence of calls of process_query *)
(* (app.py:144-275), each call one step.                                   *)
(***************************************************************************)
MaxAsks == 3

AppState ==
    [cache |-> cache, maxsize |-> maxsize, sessions |-> sessions,
     context_memory |-> context_memory, max_history |-> max_history, added |-> added,
     current_session |-> current_session, graph |-> graph]

InitApp ==
    /\ SqlIdle
    /\ user_query = <<>> /\ pc = "idle" /\ result = NoResult /\ excText = None
    /\ GraphIdle
    /\ question = <<>> /\ current_session = None /\ payload = None
    /\ asks = 0 /\ answered = {} /\ graph = CompiledGraph
    /\ loop = "idle" /\ event = NoEvent
    /\ CallIdle
    /\ cache = <<>> /\ maxsize = AppCacheSize /\ calls = <<>> /\ cacheBefore = <<>>
    /\ sessions = EmptyDict /\ context_memory = EmptyDict
    /\ max_history = AppMaxHistory /\ added = [s \in SessionIds |-> 0]

Normalised(text) == lower(strip(text))
IsQuestion(text) == strip(text) # <<>> /\ Normalised(text) \notin Commands

\* one call of process_query
ProcessQuery ==
    /\ asks < MaxAsks
    /\ \E q \in AppQuestions, s \in SessionArgs :
       \E show_sql \in IF IsQuestion(q) THEN BOOLEAN ELSE {FALSE},
          service \in IF IsQuestion(q) THEN Services ELSE {CHOOSE v \in Services : TRUE} :
          /\ s = None => \E id \in SessionIds : id \notin DOMAIN sessions \cup DOMAIN context_memory
          /\ \E o \in {process_query(AppState, q, s, show_sql, service)} :
                /\ arg' = [user_query |-> q, session_id |-> s, show_sql |-> show_sql]
                /\ out' = [raised |-> o.raised, payload |-> o.payload,
                           invoked |-> o.invoked, session_id |-> o.session_id]
                /\ cache' = o.app.cache
                /\ sessions' = o.app.sessions
                /\ context_memory' = o.app.context_memory
                /\ added' = o.app.added
                /\ current_session' = o.app.current_session
                /\ answered' =
                      IF Normalised(q) = <<"c","l","e","a","r">> THEN {}
                      ELSE IF IsQuestion(q)
                           THEN answered \cup {[session |-> o.session_id,
                                                question |-> Normalised(q),
                                                payload |-> o.payload,
                                                context |-> o.app.context_memory]}
                      ELSE answered
    /\ asks' = asks + 1
    /\ done' = TRUE
    /\ UNCHANGED <<sqlVars, user_query, pc, result, excText, graphVars, question, payload,
                   graph, loop, event, maxsize, calls, cacheBefore, max_history>>

SpecApp == InitApp /\ [][ProcessQuery]_vars

\* C23: process_query does not raise on a question it processes: it returns a payload
\* with a non-empty formatted_response and an exit flag, and the exit flag is true
\* only for the commands quit, exit, bye and q.
C23_AlwaysAPayload ==
    done =>
        /\ ~out.raised
        /\ out.payload.formatted_response # <<>>
        /\ out.payload.exit \in BOOLEAN
        /\ out.payload.exit =>
              Normalised(arg.user_query) \in {<<"q","u","i","t">>, <<"e","x","i","t">>, <<"b","y","e">>, <<"q">>}


\* the history of a session, empty for an unknown one
HistoryOf(sess, sid) == IF sid \in DOMAIN sess THEN sess[sid] ELSE <<>>

\* C28: a question equal, ignoring letter case and surrounding whitespace, to one
\* already answered in the same session since the last clear is answered with the
\* cached payload, without a run of the workflow and without a change of the
\* histories or the context memory; a question not yet answered in its session,
\* whatever other sessions were asked, is sent to the workflow.
C28_RepeatServedFromCache ==
    [][
        (asks' = asks + 1 /\ IsQuestion(arg'.user_query)) =>
            LET before == {e \in answered : /\ e.session = out'.session_id
                                            /\ e.question = Normalised(arg'.user_query)}
            IN IF before # {}
               THEN /\ ~out'.invoked
                    /\ \A e \in before : out'.payload = e.payload
                    /\ sessions' = sessions
                    /\ context_memory' = context_memory
               ELSE out'.invoked
    ]_vars

\* a repeated question was served from the cache although the session's context
\* memory is no longer the one of the first answer
C28_Witness ==
    /\ done /\ IsQuestion(arg.user_query) /\ ~out.invoked
    /\ \E e \in answered : /\ e.session = out.session_id
                           /\ e.question = Normalised(arg.user_query)
                           /\ e.context # context_memory

\* a question answered in one session was asked in another and ran the workflow
C28_OtherSession ==
    /\ done /\ IsQuestion(arg.user_query) /\ out.invoked
    /\ \E e \in answered : /\ e.session # out.session_id
                           /\ e.question = Normalised(arg.user_query)

\* C29: a question sent to the workflow appends exactly two messages to its
\* session's history, the user message with the question and then the assistant
\* message with the response, whether the run failed or not, leaves the other
\* histories alone, and the payload returned is the cache's newest entry.
C29_MissRecordsTwoMessages ==
    [][
        (asks' = asks + 1 /\ out'.invoked) =>
            LET sid == out'.session_id
                old == HistoryOf(sessions, sid)
                new == HistoryOf(sessions', sid)
                n == Len(old)
            IN /\ Len(new) = n + 2
               /\ SubSeq(new, 1, n) = old
               /\ new[n + 1].role = "user"
               /\ new[n + 1].content = strip(arg'.user_query)
               /\ new[n + 2].role = "assistant"
               /\ new[n + 2].content = out'.payload.formatted_response
               /\ \A other \in DOMAIN sessions \ {sid} :
                     /\ other \in DOMAIN sessions'
                     /\ sessions'[other] = sessions[other]
               /\ cache' # <<>>
               /\ cache'[Len(cache')].key = cache_key(sid, strip(arg'.user_query))
               /\ cache'[Len(cache')].value = out'.payload
    ]_vars

\* a failed run was recorded after an earlier question of the same session
C29_Witness ==
    /\ done /\ out.invoked
    /\ dict_get(out.payload.state, "error_message", None) # None
    /\ Len(HistoryOf(sessions, out.session_id)) >= 4

\* C30: a control command, in any letter case, runs no workflow; clear empties the
\* cache and resets the history and context memory of the session given; every other
\* command leaves the cache, the histories and the context memory as they were.
C30_CommandsChangeNothing ==
    [][
        (asks' = asks + 1 /\ Normalised(arg'.user_query) \in Commands) =>
            /\ ~out'.invoked
            /\ IF Normalised(arg'.user_query) = <<"c","l","e","a","r">>
               THEN /\ cache' = <<>>
                    /\ HistoryOf(sessions', out'.session_id) = <<>>
                    /\ \A other \in DOMAIN sessions \ {out'.session_id} :
                          other \in DOMAIN sessions' /\ sessions'[other] = sessions[other]
               ELSE /\ cache' = cache
                    /\ sessions' = sessions
                    /\ context_memory' = context_memory
    ]_vars


\* C30 with the session creation of app.py:162-163 taken into account: a control
\* command, in any letter case, runs no workflow; a call without a session id first
\* creates a new session with an empty history and a fresh context memory and makes
\* it current; beyond that clear empties the whole cache and resets the history and
\* the context memory of the call's session, and every other command changes nothing.
C30_CommandsFrame ==
    [][
        (asks' = asks + 1 /\ Normalised(arg'.user_query) \in Commands) =>
            LET sid == out'.session_id
                new == arg'.session_id = None
                clear == Normalised(arg'.user_query) = <<"c","l","e","a","r">>
                started_sessions == IF new THEN dict_set(sessions, sid, <<>>) ELSE sessions
                started_context ==
                    IF new THEN dict_set(context_memory, sid, FreshContext)
                    ELSE context_memory
            IN /\ ~out'.invoked
               /\ new => sid \notin DOMAIN sessions \cup DOMAIN context_memory
               /\ ~new => <<sid>> = arg'.session_id
               /\ current_session' = IF new THEN <<sid>> ELSE current_session
               /\ cache' = IF clear THEN <<>> ELSE cache
               /\ sessions' = IF clear /\ sid \in DOMAIN started_sessions
                              THEN dict_set(started_sessions, sid, <<>>)
                              ELSE started_sessions
               /\ context_memory' = IF clear /\ sid \in DOMAIN started_context
                                    THEN dict_set(started_context, sid, FreshContext)
                                    ELSE started_context
    ]_vars

\* clear was given a session that had been asked questions: its history is empty
\* and so is the cache
C30_Witness ==
    /\ done /\ Normalised(arg.user_query) = <<"c","l","e","a","r">>
    /\ arg.session_id # None
    /\ added[out.session_id] > 0
    /\ sessions[out.session_id] = <<>>
    /\ cache = <<>>

(***************************************************************************)
(* UnderstandQueryNode (agent/nodes.py:20-110) called on the initial state *)
(* of one question: words separated by single spaces.                      *)
(***************************************************************************)
MaxQuestionWords == 3

QuestionWords ==
    {<<"s","h","o","w">>, <<"G","i","v","e"," ","m","e">>, <<"C","o","u","n","t">>, <<"t","o","t","a","l">>, <<"n","u","m","b","e","r">>, <<"t","o","p">>, <<"T","O","P">>, <<"5">>, <<"1","2">>,
     <<"t","o","p","7">>, <<"B","e","s","t">>, <<"v","s">>, <<"m","e","a","n">>, <<"s","u","m">>, <<"x">>}

UnderstandInputs ==
    {JoinWords(ws) : ws \in UNION {[1..n -> QuestionWords] : n \in 0..MaxQuestionWords}}

InitUnderstand ==
    /\ arg \in UnderstandInputs
    /\ done = FALSE /\ out = None
    /\ SqlIdle /\ FlowIdle /\ CacheIdle /\ ConvIdle

\* UnderstandQueryNode()(create_initial_state(arg, ...))
DoUnderstand ==
    /\ ~done
    /\ done' = TRUE
    /\ out' = UnderstandQueryNode(create_initial_state(arg, TableNames, ColumnsDict, None))
    /\ UNCHANGED <<arg, sqlVars, flowVars, cacheVars, convVars>>

SpecUnderstand == InitUnderstand /\ [][DoUnderstand]_vars

\* the keyword families in their order of precedence, with the action and the
\* function of each
KeywordFamilies ==
    << [action |-> "retrieve", function |-> "",
        words |-> {<<"s","h","o","w">>, <<"l","i","s","t">>, <<"d","i","s","p","l","a","y">>, <<"g","e","t">>, <<"g","i","v","e"," ","m","e">>}],
       [action |-> "count", function |-> "",
        words |-> {<<"c","o","u","n","t">>, <<"h","o","w"," ","m","a","n","y">>, <<"t","o","t","a","l"," ","n","u","m","b","e","r">>}],
       [action |-> "top_n", function |-> "",
        words |-> {<<"t","o","p">>, <<"b","e","s","t">>, <<"h","i","g","h","e","s","t">>, <<"m","o","s","t">>}],
       [action |-> "compare", function |-> "",
        words |-> {<<"c","o","m","p","a","r","e">>, <<"d","i","f","f","e","r","e","n","c","e">>, <<"v","s">>, <<"v","e","r","s","u","s">>}],
       [action |-> "aggregate", function |-> "avg",
        words |-> {<<"a","v","e","r","a","g","e">>, <<"a","v","g">>, <<"m","e","a","n">>}],
       [action |-> "aggregate", function |-> "sum",
        words |-> {<<"s","u","m">>, <<"t","o","t","a","l">>}] >>

FamilyPresent(k, query) == \E w \in KeywordFamilies[k].words : Contains(query, w)
FamiliesPresent(query) == {k \in DOMAIN KeywordFamilies : FamilyPresent(k, query)}

\* the places where 'top', whitespace and a digit follow each other, and the number
\* written there
TopNumberPlaces(query) ==
    {<<i, j>> \in (1..Len(query)) \X (1..Len(query)) :
        /\ StartsAt(query, <<"t","o","p">>, i)
        /\ j > i + 3
        /\ \A k \in (i + 3)..(j - 1) : IsSpace(query[k])
        /\ query[j] \in Range(Digits)}
NumberAt(query, j) ==
    LET last == CHOOSE e \in j..Len(query) :
                    /\ \A k \in j..e : query[k] \in Range(Digits)
                    /\ e = Len(query) \/ query[e + 1] \notin Range(Digits)
    IN int(SubSeq(query, j, last))

\* C31: the action (and function) is that of the first keyword family present in
\* the lowered question, retrieve when none is present; the limit is set only for
\* top_n, to the number that follows 'top', or to 10 when there is none.
C31_IntentByFirstFamily ==
    done =>
        LET query == lower(arg)
            intent == out.query_intent
            present == FamiliesPresent(query)
            first == CHOOSE k \in present : \A other \in present : k <= other
            places == TopNumberPlaces(query)
            place == CHOOSE p \in places : \A other \in places : p[1] <= other[1]
        IN /\ present = {} => intent.action = "retrieve" /\ intent.function = ""
           /\ present # {} => /\ intent.action = KeywordFamilies[first].action
                              /\ intent.function = KeywordFamilies[first].function
           /\ intent.action = "top_n" =>
                 intent.limit = IF places = {} THEN 10 ELSE NumberAt(query, place[2])
           /\ intent.action # "top_n" => intent.limit = -1

\* a top_n question whose limit is the number written after 'top', although an
\* averaging word is present too
C31_Witness ==
    /\ done
    /\ out.query_intent.action = "top_n"
    /\ out.query_intent.limit = 12
    /\ Contains(lower(arg), <<"m","e","a","n">>)

(***************************************************************************)
(* QueryValidator._has_multiple_statements (agent/validator.py:139-162)    *)
(* called on one text over a, ;, ', space and newline.                     *)
(***************************************************************************)
MaxStatementLen == 6

StatementChars == {"a", ";", "'", " ", "\n"}
StatementInputs == UNION {[1..n -> StatementChars] : n \in 0..MaxStatementLen}

InitStatements ==
    /\ arg \in StatementInputs
    /\ done = FALSE /\ out = None
    /\ SqlIdle /\ FlowIdle /\ CacheIdle /\ ConvIdle

\* validator._has_multiple_statements(arg)
DoStatements ==
    /\ ~done
    /\ done' = TRUE
    /\ out' = has_multiple_statements(arg)
    /\ UNCHANGED <<arg, sqlVars, flowVars, cacheVars, convVars>>

SpecStatements == InitStatements /\ [][DoStatements]_vars

\* the quotes of a text pair up from the left; a character belongs to a literal
\* when it is one of a pair or stands between the two
QuotesUpTo(text, i) == Cardinality({k \in 1..i : text[k] = "'"})
QuoteAfter(text, i) == \E k \in (i + 1)..Len(text) : text[k] = "'"
InLiteral(text, i) ==
    IF text[i] = "'"
    THEN QuotesUpTo(text, i) % 2 = 0 \/ QuoteAfter(text, i)
    ELSE QuotesUpTo(text, i) % 2 = 1 /\ QuoteAfter(text, i)
Outside(text) == {i \in 1..Len(text) : ~InLiteral(text, i)}
SemicolonsOutside(text) == {i \in Outside(text) : text[i] = ";"}
\* the last character of what is left once the literals are removed and the rest
\* is trimmed
LastOutside(text) ==
    LET shown == {i \in Outside(text) : ~IsSpace(text[i])}
    IN CHOOSE i \in shown : \A k \in shown : k <= i

\* C32: the rule rejects a statement exactly when, literals removed, it holds more
\* than one ';', or one ';' that is not the last character of the trimmed rest.
C32_MultipleStatementRule ==
    done =>
        LET n == Cardinality(SemicolonsOutside(arg))
        IN out <=> \/ n > 1
                   \/ n = 1 /\ LastOutside(arg) \notin SemicolonsOutside(arg)

\* a text with two ';' passes: one is inside a literal, the other is trailing
C32_Witness ==
    /\ done /\ ~out
    /\ Cardinality({i \in 1..Len(arg) : arg[i] = ";"}) = 2
    /\ arg[Len(arg)] = " "

(***************************************************************************)
(* NLToSQLApp.run_interactive (app.py:276-333): a session is started, then *)
(* each pass of `while True` prompts for a line and hands it to            *)
(* process_query.  The prompt returns a line or raises KeyboardInterrupt   *)
(* or EOFError; process_query returns a payload, raises an Exception (the  *)
(* schema manager fails during the schema or tables command, app.py:176    *)
(* and 189) or is cut short by KeyboardInterrupt while the workflow runs.  *)
(***************************************************************************)
MaxPasses == 3

LoopLines == {<<>>, <<" "," ">>, <<"s","h","o","w"," ","t">>, <<"a","v","g"," ","a">>, <<"Q","u","i","t">>, <<"b","y","e">>, <<"s","c","h","e","m","a">>, <<"T","a","b","l","e","s">>, <<" ","C","L","E","A","R">>, <<"?">>}

\* result.get('exit')
get_exit(res) == IF "exit" \in DOMAIN res THEN res.exit ELSE FALSE

\* what process_query can do with a line that is not blank
OutcomesOf(line) ==
    IF Normalised(line) \in {<<"s","c","h","e","m","a">>, <<"t","a","b","l","e","s">>} THEN {"returned", "Exception"}
    ELSE IF IsQuestion(line) THEN {"returned", "KeyboardInterrupt"}
    ELSE {"returned"}

\* one pass of the loop, lines 303-327: where the loop stands afterwards
loop_pass_exception_breaks(kind, outcome, exit) ==
    IF kind = "EOFError" THEN "ended"
    ELSE IF kind = "KeyboardInterrupt" THEN "prompt"
    ELSE IF outcome = "blank" THEN "prompt"
    ELSE IF outcome = "KeyboardInterrupt" THEN "prompt"
    ELSE IF outcome = "Exception" THEN "ended"
    ELSE IF exit THEN "ended" ELSE "prompt"

loop_pass(kind, outcome, exit) ==
    IF kind = "EOFError" THEN "ended"
    ELSE IF kind = "KeyboardInterrupt" THEN "prompt"
    ELSE IF outcome = "blank" THEN "prompt"
    ELSE IF outcome = "KeyboardInterrupt" THEN "prompt"
    ELSE IF outcome = "Exception" THEN "prompt"
    ELSE IF exit THEN "ended" ELSE "prompt"

InitLoop == InitApp

\* lines 291-300: start_session, then the prompt session is built
StartInteractive ==
    /\ loop = "idle"
    /\ \E sid \in {CHOOSE s \in SessionIds : s \notin DOMAIN sessions \cup DOMAIN context_memory} :
          \E started \in {create_session(sessions, context_memory, sid)} :
             /\ sessions' = started.sessions
             /\ context_memory' = started.context_memory
             /\ current_session' = <<sid>>
    /\ loop' = "prompt"
    /\ UNCHANGED <<sqlVars, user_query, pc, result, excText, graphVars, question, payload,
                   asks, answered, graph, event, callVars, cacheVars, max_history, added>>

\* the prompt raises: nothing is handed to process_query
PromptRaises ==
    /\ loop = "prompt" /\ asks < MaxPasses
    /\ \E kind \in {"KeyboardInterrupt", "EOFError"} :
          /\ event' = [kind |-> kind, outcome |-> ""]
          /\ loop' = loop_pass(kind, "", FALSE)
    /\ asks' = asks + 1
    /\ UNCHANGED <<sqlVars, user_query, pc, result, excText, graphVars, question, payload,
                   current_session, answered, graph, callVars, cacheVars, convVars>>

\* the prompt returns a blank line (line 309), or process_query does not return
LineWithoutResult ==
    /\ loop = "prompt" /\ asks < MaxPasses
    /\ \E line \in LoopLines :
       \E outcome \in IF strip(line) = <<>> THEN {"blank"} ELSE OutcomesOf(line) \ {"returned"} :
          /\ arg' = [user_query |-> line, session_id |-> current_session, show_sql |-> FALSE]
          /\ event' = [kind |-> "line", outcome |-> outcome]
          /\ loop' = loop_pass("line", outcome, FALSE)
    /\ asks' = asks + 1
    /\ UNCHANGED <<sqlVars, user_query, pc, result, excText, graphVars, question, payload,
                   current_session, answered, graph, done, out, cacheVars, convVars>>

\* the prompt returns a line and process_query returns its payload (lines 313-323)
LineAnswered ==
    /\ loop = "prompt" /\ asks < MaxPasses
    /\ \E line \in LoopLines :
       \E service \in IF IsQuestion(line) THEN Services ELSE {CHOOSE v \in Services : TRUE} :
          /\ strip(line) # <<>>
          /\ \E o \in {process_query(AppState, line, current_session, FALSE, service)} :
                /\ arg' = [user_query |-> line, session_id |-> current_session, show_sql |-> FALSE]
                /\ out' = [raised |-> o.raised, payload |-> o.payload, invoked |-> o.invoked, session_id |-> o.session_id]
                /\ cache' = o.app.cache /\ sessions' = o.app.sessions
                /\ context_memory' = o.app.context_memory
                /\ added' = o.app.added /\ current_session' = o.app.current_session
                /\ event' = [kind |-> "line", outcome |-> "returned"]
                /\ loop' = loop_pass("line", "returned", get_exit(o.payload))
    /\ asks' = asks + 1 /\ done' = TRUE
    /\ UNCHANGED <<sqlVars, user_query, pc, result, excText, graphVars, question, payload,
                   answered, graph, maxsize, calls, cacheBefore, max_history>>

NextLoop == StartInteractive \/ PromptRaises \/ LineWithoutResult \/ LineAnswered

SpecLoop == InitLoop /\ [][NextLoop]_vars

\* C33: the loop ends only on a pass whose prompt raised EOFError or whose
\* process_query returned a payload with the exit flag set; after a pass that met
\* KeyboardInterrupt, a blank line or an exception of process_query the loop stands
\* at its prompt again
C33_LoopEndsOnlyOnExitOrEof ==
    [][loop = "prompt" =>
         /\ loop' = "ended" =>
               \/ event'.kind = "EOFError"
               \/ event'.outcome = "returned" /\ get_exit(out'.payload)
         /\ (asks' # asks /\ (\/ event'.kind = "KeyboardInterrupt"
                              \/ event'.outcome \in {"blank", "KeyboardInterrupt", "Exception"}))
               => loop' = "prompt"]_vars

\* a payload was returned, then process_query raised an exception, and the loop
\* stands at its prompt
C33_Witness ==
    /\ asks = 2 /\ done
    /\ event.outcome = "Exception"
    /\ loop = "prompt"

(***************************************************************************)
(* utils/helpers.py: sanitize_input (89-108) and format_error_message      *)
(* (128-149), each called on one text.                                     *)
(***************************************************************************)
MaxInputLen == 5

\* str.split() without arguments: the maximal runs of characters that are not whitespace
RECURSIVE split_whitespace(_, _)
split_whitespace(s, word) ==
    IF s = <<>> THEN (IF word = <<>> THEN <<>> ELSE <<word>>)
    ELSE IF IsSpace(Head(s))
         THEN (IF word = <<>> THEN <<>> ELSE <<word>>) \o split_whitespace(Tail(s), <<>>)
         ELSE split_whitespace(Tail(s), Append(word, Head(s)))

\* re.sub(r'[;<>]', '', cleaned)
remove_dangerous(s) == SelectSeq(s, LAMBDA ch : ch \notin {";", "<", ">"})

sanitize_input(user_input) ==
    IF user_input = <<>> THEN <<>>
    ELSE strip(remove_dangerous(JoinWords(split_whitespace(user_input, <<>>))))

SanitizeChars == {"a", ";", "<", ">", " ", "\t"}
SanitizeInputs == UNION {[1..n -> SanitizeChars] : n \in 0..MaxInputLen}

InitSanitize ==
    /\ arg \in SanitizeInputs
    /\ done = FALSE /\ out = None
    /\ SqlIdle /\ FlowIdle /\ CacheIdle /\ ConvIdle

\* sanitize_input(arg)
DoSanitize ==
    /\ ~done
    /\ done' = TRUE
    /\ out' = sanitize_input(arg)
    /\ UNCHANGED <<arg, sqlVars, flowVars, cacheVars, convVars>>

SpecSanitize == InitSanitize /\ [][DoSanitize]_vars

NoRiskyCharacter(text) == \A i \in 1..Len(text) : text[i] \notin {"<", ">", ";"}
Trimmed(text) == text = <<>> \/ (~IsSpace(text[1]) /\ ~IsSpace(text[Len(text)]))
NoWhitespaceRun(text) == \A i \in 1..(Len(text) - 1) : ~(IsSpace(text[i]) /\ IsSpace(text[i + 1]))

\* C34: the text sanitize_input returns holds none of '<', '>', ';', neither starts
\* nor ends with whitespace, holds no two whitespace characters in a row, and is
\* returned unchanged when sanitized again
C34_SanitizedIsClean ==
    done => /\ NoRiskyCharacter(out)
            /\ Trimmed(out)
            /\ NoWhitespaceRun(out)
            /\ sanitize_input(out) = out

\* the parts of C34 that hold for every input
C34_NoRiskyCharacterAndTrimmed ==
    done => NoRiskyCharacter(out) /\ Trimmed(out)

\* format_error_message(error): str(error) is the message the exception was built with
ConnectionMessage == <<"Database connection error. Please check if the database is running.">>
TimeoutMessage == <<"Query timed out. Please try a simpler query.">>
SyntaxMessage == <<"SQL syntax error. Please rephrase your question.">>
PermissionMessage == <<"Permission denied. You don't have access to this data.">>
GenericMessage(message) == <<"An error occurred: ">> \o message

format_error_message(message) ==
    LET error_str == lower(message)
    IN IF Contains(error_str, <<"c","o","n","n","e","c","t","i","o","n">>) THEN ConnectionMessage
       ELSE IF Contains(error_str, <<"t","i","m","e","o","u","t">>) THEN TimeoutMessage
       ELSE IF Contains(error_str, <<"s","y","n","t","a","x">>) THEN SyntaxMessage
       ELSE IF Contains(error_str, <<"p","e","r","m","i","s","s","i","o","n">>) THEN PermissionMessage
       ELSE GenericMessage(message)

MaxErrorWords == 3
ErrorWords == {<<"C","o","n","n","e","c","t","i","o","n">>, <<"t","i","m","e","o","u","t">>, <<"S","Y","N","T","A","X">>, <<"P","e","r","m","i","s","s","i","o","n">>, <<"d","e","n","i","e","d">>, <<"A","c","c","e","s","s">>, <<"r","e","f","u","s","e","d">>, <<"t","i","m","e">>, <<"o","u","t">>}
ErrorMessages == {JoinWords(ws) : ws \in UNION {[1..n -> ErrorWords] : n \in 0..MaxErrorWords}}

InitErrorMessage ==
    /\ arg \in ErrorMessages
    /\ done = FALSE /\ out = None
    /\ SqlIdle /\ FlowIdle /\ CacheIdle /\ ConvIdle

\* format_error_message(Exception(arg))
DoErrorMessage ==
    /\ ~done
    /\ done' = TRUE
    /\ out' = format_error_message(arg)
    /\ UNCHANGED <<arg, sqlVars, flowVars, cacheVars, convVars>>

SpecErrorMessage == InitErrorMessage /\ [][DoErrorMessage]_vars

HasCue(text, cue) == Contains(lower(text), cue)

\* C35: the sentence returned is that of the first cue the error text holds, in the
\* order connection, timeout, syntax, then permission or denied; the generic text
\* with the message is returned only when the text holds none of the cues
C35_FirstCueDecides ==
    done => out = IF HasCue(arg, <<"c","o","n","n","e","c","t","i","o","n">>) THEN ConnectionMessage
                  ELSE IF HasCue(arg, <<"t","i","m","e","o","u","t">>) THEN TimeoutMessage
                  ELSE IF HasCue(arg, <<"s","y","n","t","a","x">>) THEN SyntaxMessage
                  ELSE IF HasCue(arg, <<"p","e","r","m","i","s","s","i","o","n">>) \/ HasCue(arg, <<"d","e","n","i","e","d">>)
                       THEN PermissionMessage
                  ELSE GenericMessage(arg)

\* C35 without the cue 'denied', which the function does not look for
C35_FirstCueWithoutDenied ==
    done => out = IF HasCue(arg, <<"c","o","n","n","e","c","t","i","o","n">>) THEN ConnectionMessage
                  ELSE IF HasCue(arg, <<"t","i","m","e","o","u","t">>) THEN TimeoutMessage
                  ELSE IF HasCue(arg, <<"s","y","n","t","a","x">>) THEN SyntaxMessage
                  ELSE IF HasCue(arg, <<"p","e","r","m","i","s","s","i","o","n">>) THEN PermissionMessage
                  ELSE GenericMessage(arg)

\* C36: in every state of a workflow run generation_attempt lies between 0 and
\* max_attempts, and max_attempts, user_query and session_id are those
\* create_initial_state was given
C36_AttemptWithinBounds ==
    state # NoState =>
        /\ 0 <= state.generation_attempt
        /\ state.generation_attempt <= state.max_attempts
        /\ state.max_attempts
              = create_initial_state(user_query, TableNames, ColumnsDict, current_session).max_attempts
        /\ state.user_query = user_query
        /\ state.session_id = current_session

\* the third attempt was executed and failed, and the run ended
C36_Witness ==
    /\ state # NoState
    /\ state.generation_attempt = state.max_attempts
    /\ prev = "execute" /\ node = END
    /\ refineCalls >= 2

\* the branch of should_refine_sql (edges.py:27-37) a state takes, by the order of
\* its return statements
RefineBranch(s) ==
    IF s.is_valid THEN "valid"
    ELSE IF s.generation_attempt >= s.max_attempts THEN "attempts used up"
    ELSE IF s.validation_errors # <<>> THEN "errors"
    ELSE IF s.validation_warnings # <<>> THEN "warnings only"
    ELSE "nothing to refine"

\* C37: the state the Validate node leaves has validation_errors whenever is_valid is
\* false, so the routing after Validate takes neither its warnings-only branch nor
\* its last branch, and the Execute node is entered only with is_valid true
C37_InvalidHasErrors ==
    /\ prev = "validate" =>
          /\ ~state.is_valid => state.validation_errors # <<>>
          /\ RefineBranch(state) \notin {"warnings only", "nothing to refine"}
          /\ route = "execute" <=> state.is_valid
    /\ (pc = "graph" /\ node = "execute") => state.is_valid

\* Validate rejected a refined SQL that still has attempts left, and Refine is next
C37_Witness ==
    /\ pc = "graph" /\ prev = "validate" /\ node = "refine"
    /\ ~state.is_valid /\ state.validation_errors # <<>>
    /\ state.validation_warnings # <<>>
    /\ refineCalls > 0

\* what the manager holds for one session: whether it knows it, and its history and
\* context memory
SessionView(sess, ctx, s) ==
    [known |-> <<s \in DOMAIN sess, s \in DOMAIN ctx>>,
     history |-> get_history(sess, s),
     context |-> get_context(ctx, s)]

\* C38: a call of add_message, update_context or clear_session for one session
\* leaves the history and the context memory of every other session as they were,
\* whatever calls on whatever sessions came before
C38_SessionsIsolated ==
    [][arg'.fn \in {"add_message", "update_context", "clear_session"} =>
         \A other \in SessionIds \ {arg'.session_id} :
            SessionView(sessions', context_memory', other)
               = SessionView(sessions, context_memory, other)]_vars

\* a session was cleared while another one holds messages and remembered tables
C38_Witness ==
    /\ done /\ arg.fn = "clear_session" /\ arg.existed /\ arg.messages > 0
    /\ \E other \in SessionIds \ {arg.session_id} :
          /\ Len(get_history(sessions, other)) > 1
          /\ dict_get(get_context(context_memory, other), "last_tables", <<>>) # <<>>

(***************************************************************************)
(* A long conversation in one session: process_query (app.py:144-275) is   *)
(* called MaxLongAsks times with the session identifier 's1'; each call    *)
(* asks a question not asked before or repeats that of the call before, and the *)
(* workflow answers or fails at the schema manager.  Twelve calls are      *)
(* enough for the history to pass the cap of 2*max_history = 20 messages.  *)
(***************************************************************************)
MaxLongAsks == 12

\* 'show t', 'show tt', 'show ttt', ...
QuestionNo(k) == <<"s","h","o","w"," ">> \o [i \in 1..k |-> "t"]
LongQuestions == {QuestionNo(k) : k \in 1..MaxLongAsks}
LongServices ==
    {[schema |-> CHOOSE e \in SchemaErrors : TRUE, answers |-> <<>>],
     Answers(TextResponse(<<"S","E","L","E","C","T"," ","a"," ","F","R","O","M"," ","t">>))}
LongSession == CHOOSE s \in SessionIds : TRUE

InitHistory ==
    /\ SqlIdle
    /\ user_query = <<>> /\ pc = "idle" /\ result = NoResult /\ excText = None
    /\ GraphIdle
    /\ question = <<>> /\ current_session = None /\ payload = None
    /\ asks = 0 /\ answered = {}
    /\ graph = [k \in LongQuestions \X {LongSession} \X LongServices
                  |-> invoke_run(k[1], k[2], k[3])]
    /\ loop = "idle" /\ event = NoEvent
    /\ CallIdle
    /\ cache = <<>> /\ maxsize = AppCacheSize /\ calls = <<>> /\ cacheBefore = <<>>
    /\ sessions = EmptyDict /\ context_memory = EmptyDict
    /\ max_history = AppMaxHistory /\ added = [s \in SessionIds |-> 0]

\* one call of process_query in the long conversation
LongAsk ==
    /\ asks < MaxLongAsks
    /\ \E q \in {QuestionNo(Cardinality(KeysOf(cache)) + 1)}
                   \cup (IF done THEN {arg.user_query} ELSE {}) :
       \E service \in LongServices :
       \E o \in {process_query(AppState, q, <<LongSession>>, FALSE, service)} :
          /\ arg' = [user_query |-> q, session_id |-> <<LongSession>>, show_sql |-> FALSE]
          /\ out' = [raised |-> o.raised, payload |-> o.payload, invoked |-> o.invoked,
                     session_id |-> o.session_id]
          /\ cache' = o.app.cache /\ sessions' = o.app.sessions
          /\ context_memory' = o.app.context_memory
          /\ added' = o.app.added /\ current_session' = o.app.current_session
    /\ asks' = asks + 1 /\ done' = TRUE
    /\ UNCHANGED <<sqlVars, user_query, pc, result, excText, graphVars, question, payload,
                   answered, graph, loop, event, maxsize, calls, cacheBefore, max_history>>

SpecHistory == InitHistory /\ [][LongAsk]_vars

\* C39: when process_query has returned, every session's history has an even number
\* of messages and its roles are user, assistant, user, assistant, ..., also after
\* the cap of 2*max_history messages has removed the oldest ones
C39_HistoryAlternates ==
    done => \A s \in DOMAIN sessions :
               /\ Len(sessions[s]) % 2 = 0
               /\ \A i \in 1..Len(sessions[s]) : sessions[s][i].role = RoleOf(i - 1)

\* the history is at its cap and the first two questions are no longer in it
C39_Witness ==
    /\ done
    /\ Len(get_history(sessions, LongSession)) = 2 * max_history
    /\ get_history(sessions, LongSession)[1].content \notin {QuestionNo(1), QuestionNo(2)}
    /\ get_history(sessions, LongSession)[1].role = "user"

\* a payload built from a workflow run that ended with an error message
FailurePayload(p) ==
    /\ "state" \in DOMAIN p
    /\ Truthy(dict_get(p.state, "error_message", None))

\* the cache key of the call that has just returned
KeyOfCall(a, o) == cache_key(o.session_id, strip(a.user_query))

\* C40: the payload of a failed workflow run is stored in the cache under the
\* question's key; a later call with the same question in the same session returns
\* that payload without running the workflow; and the entry stays in the cache
\* through every call that is not the clear command and evicts nothing
C40_FailureIsCached ==
    [][asks' = asks + 1 =>
         LET key == KeyOfCall(arg', out')
         IN /\ (IsQuestion(arg'.user_query) /\ out'.invoked /\ FailurePayload(out'.payload))
                  => /\ key \in KeysOf(cache')
                     /\ ValueOf(cache', key) = out'.payload
            /\ (IsQuestion(arg'.user_query) /\ key \in KeysOf(cache)
                   /\ FailurePayload(ValueOf(cache, key)))
                  => /\ out'.payload = ValueOf(cache, key)
                     /\ ~out'.invoked
            /\ (Normalised(arg'.user_query) # <<"c","l","e","a","r">> /\ Len(cache) < maxsize)
                  => \A k \in KeysOf(cache) :
                        FailurePayload(ValueOf(cache, k))
                           => k \in KeysOf(cache') /\ ValueOf(cache', k) = ValueOf(cache, k)]_vars

\* the third call is served the failure payload of an earlier call from the cache,
\* which holds another entry as well
C40_Witness ==
    /\ done /\ asks = 3
    /\ ~out.invoked /\ FailurePayload(out.payload)
    /\ Len(cache) = 2
    /\ cache[2].key = KeyOfCall(arg, out)

====
